---- MODULE Spec2Model ----
(***************************************************************************)
(* Natural-language -> SQL translation pipeline of the bike-share          *)
(* assistant: QueryGenerator (date phrases, aggregations, filters, plan    *)
(* assembly) and SemanticMapper (schema cache, column scoring).            *)
(* Question text, SQL text and parameter values are strings; String        *)
(* methods (includes, match, split, toLowerCase) are computed character    *)
(* by character.                                                           *)
(***************************************************************************)
EXTENDS Integers, Sequences, FiniteSets, TLC

VARIABLES
    pc,           \* position of the request in the pipeline
    env,          \* host environment: time-zone offset and current local date
    db,           \* what the database answers to the catalog query
    schemaCache,  \* SemanticMapper.schemaCache
    userText,     \* the question being translated
    llmAnalysis,  \* result of analyzeQueryIntent for this request
    mapping,      \* result of mapUserQueryToSchema for this request
    result,       \* what generateQuery returned or threw
    calls,        \* interleaved mapUserQueryToSchema calls on one SemanticMapper
    cacheOwner,   \* the call whose refresh installed the array schemaCache holds
    response,     \* a response text of the completion service
    jsonText      \* what extractFirstJsonObject returned for it

vars == <<pc, env, db, schemaCache, userText, llmAnalysis, mapping, result,
          calls, cacheOwner, response, jsonText>>

----------------------------------------------------------------------------
(* JavaScript String primitives *)

Ch(s, i) == IF i >= 1 /\ i <= Len(s) THEN SubSeq(s, i, i) ELSE ""

StartsAt(s, p, i) ==
    /\ i >= 1
    /\ i + Len(p) - 1 <= Len(s)
    /\ SubSeq(s, i, i + Len(p) - 1) = p

\* String.prototype.includes
Includes(s, p) ==
    IF Len(p) = 0 THEN TRUE
    ELSE \E i \in 1..(Len(s) - Len(p) + 1) : SubSeq(s, i, i + Len(p) - 1) = p

\* String.prototype.startsWith
StartsWith(s, p) == Len(p) = 0 \/ StartsAt(s, p, 1)

\* String.prototype.substring(n) (0-based n)
Substring(s, n) == IF n >= Len(s) THEN "" ELSE SubSeq(s, n + 1, Len(s))

UpperChars == "ABCDEFGHIJKLMNOPQRSTUVWXYZ"
LowerChars == "abcdefghijklmnopqrstuvwxyz"
DigitChars == "0123456789"

CharSet(s) == {SubSeq(s, i, i) : i \in 1..Len(s)}

UpperSet == CharSet(UpperChars)
DigitSet == CharSet(DigitChars)
WordSet  == CharSet(UpperChars) \cup CharSet(LowerChars) \cup CharSet(DigitChars) \cup {"_"}

IsDigit(c) == c \in DigitSet
IsWordChar(c) == c \in WordSet      \* \w
IsSpace(c) == c = " "               \* \s (questions hold no other white space)

toLowerChar(c) ==
    IF c \in UpperSet
    THEN Ch(LowerChars, CHOOSE i \in 1..Len(UpperChars) : Ch(UpperChars, i) = c)
    ELSE c

\* lower-cased characters a..b of s, by halves
RECURSIVE toLowerRange(_, _, _)
toLowerRange(s, a, b) ==
    IF a > b THEN ""
    ELSE IF a = b THEN toLowerChar(Ch(s, a))
    ELSE LET mid == (a + b) \div 2
         IN  toLowerRange(s, a, mid) \o toLowerRange(s, mid + 1, b)

\* String.prototype.toLowerCase
toLowerCase(s) == toLowerRange(s, 1, Len(s))

DigitVal(c) == CHOOSE d \in 0..9 : Ch(DigitChars, d + 1) = c

RECURSIVE parseIntAcc(_, _, _)
parseIntAcc(s, i, acc) ==
    IF i > Len(s) \/ ~IsDigit(Ch(s, i)) THEN acc
    ELSE parseIntAcc(s, i + 1, acc * 10 + DigitVal(Ch(s, i)))

\* parseInt of a string that starts with digits
parseInt(s) == parseIntAcc(s, 1, 0)

\* Number -> decimal text (template literals, String(n))
numToStr(n) == ToString(n)

\* end of the run of \w characters that starts at i (i - 1 when there is none)
RECURSIVE WordEnd(_, _)
WordEnd(s, i) == IF IsWordChar(Ch(s, i)) THEN WordEnd(s, i + 1) ELSE i - 1

\* end of the run of digits that starts at i (i - 1 when there is none)
RECURSIVE DigitEnd(_, _)
DigitEnd(s, i) == IF IsDigit(Ch(s, i)) THEN DigitEnd(s, i + 1) ELSE i - 1

\* first position at or after i that holds no white space
RECURSIVE SkipSpace(_, _)
SkipSpace(s, i) == IF IsSpace(Ch(s, i)) THEN SkipSpace(s, i + 1) ELSE i

MinOf(S) == CHOOSE x \in S : \A y \in S : x <= y

\* text.split(/\s+/).filter(word => word.length > 0)
RECURSIVE SplitFrom(_, _)
SplitFrom(s, i) ==
    LET a == SkipSpace(s, i) IN
    IF a > Len(s) THEN <<>>
    ELSE LET nxt == {k \in a..Len(s) : IsSpace(Ch(s, k))}
             e == IF nxt = {} THEN Len(s) ELSE MinOf(nxt) - 1
         IN  <<SubSeq(s, a, e)>> \o SplitFrom(s, e + 1)

SplitWords(s) == SplitFrom(s, 1)

\* Array.prototype.join
RECURSIVE Join(_, _)
Join(parts, sep) ==
    IF Len(parts) = 0 THEN ""
    ELSE IF Len(parts) = 1 THEN parts[1]
    ELSE parts[1] \o sep \o Join(Tail(parts), sep)

SeqToSet(q) == {q[i] : i \in 1..Len(q)}

\* Array.prototype.slice(0, n)
Slice(q, n) == IF Len(q) <= n THEN q ELSE SubSeq(q, 1, n)

----------------------------------------------------------------------------
(* JavaScript Date: a date is a day number (days since 1970-01-01), an      *)
(* instant is a number of minutes since the epoch.                          *)

\* day number of the civil date y-m-d (m in 1..12)
DaysFromCivil(y, m, d) ==
    LET yy  == IF m <= 2 THEN y - 1 ELSE y
        era == yy \div 400
        yoe == yy - era * 400
        mp  == IF m > 2 THEN m - 3 ELSE m + 9
        doy == (153 * mp + 2) \div 5 + d - 1
        doe == yoe * 365 + yoe \div 4 - yoe \div 100 + doy
    IN  era * 146097 + doe - 719468

\* civil date [y, m, d] of a day number
CivilFromDays(z) ==
    LET zz  == z + 719468
        era == zz \div 146097
        doe == zz - era * 146097
        yoe == (doe - doe \div 1460 + doe \div 36524 - doe \div 146096) \div 365
        doy == doe - (365 * yoe + yoe \div 4 - yoe \div 100)
        mp  == (5 * doy + 2) \div 153
        dd  == doy - (153 * mp + 2) \div 5 + 1
        mm  == IF mp < 10 THEN mp + 3 ELSE mp - 9
        yy  == yoe + era * 400
    IN  [y |-> IF mm <= 2 THEN yy + 1 ELSE yy, m |-> mm, d |-> dd]

MinutesPerDay == 24 * 60

\* new Date(year, monthIndex, day): local midnight of the normalised date, as
\* an instant. Years 0..99 mean 1900..1999; month and day overflow carry.
NewDate(year, monthIndex, day, tzEast) ==
    LET y0 == IF year >= 0 /\ year <= 99 THEN 1900 + year ELSE year
        y1 == y0 + (monthIndex \div 12)
        m1 == (monthIndex % 12) + 1
    IN  (DaysFromCivil(y1, m1, 1) + day - 1) * MinutesPerDay - tzEast

Pad2(n) == IF n < 10 THEN "0" \o numToStr(n) ELSE numToStr(n)

Pad4(n) ==
    IF n < 10 THEN "000" \o numToStr(n)
    ELSE IF n < 100 THEN "00" \o numToStr(n)
    ELSE IF n < 1000 THEN "0" \o numToStr(n)
    ELSE numToStr(n)

\* the ISO text of a civil date
IsoOfCivil(c) == Pad4(c.y) \o "-" \o Pad2(c.m) \o "-" \o Pad2(c.d)

\* date.toISOString().split('T')[0]: the UTC calendar day of the instant
toISODate(instant) == IsoOfCivil(CivilFromDays(instant \div MinutesPerDay))

----------------------------------------------------------------------------
(* QueryGenerator.parseDateExpressions *)

MonthNames ==
    <<"january", "february", "march", "april", "may", "june",
      "july", "august", "september", "october", "november", "december">>

\* months.indexOf(month.toLowerCase())
getMonthIndex(month) ==
    LET lm == toLowerCase(month)
        hits == {i \in 1..Len(MonthNames) : MonthNames[i] = lm}
    IN  IF hits = {} THEN -1 ELSE MinOf(hits) - 1

\* (\w+) (\d{4}) anchored at i: the word run from i, one blank, four digits
WordYearAt(s, i) ==
    /\ IsWordChar(Ch(s, i))
    /\ LET j == WordEnd(s, i) IN
       /\ Ch(s, j + 1) = " "
       /\ \A k \in 1..4 : IsDigit(Ch(s, j + 1 + k))

\* the captures of (\w+) (\d{4}) anchored at i
WordYearCapture(s, i) ==
    LET j == WordEnd(s, i) IN
    [word |-> SubSeq(s, i, j), year |-> parseInt(SubSeq(s, j + 2, j + 5))]

FirstWeekPrefix == "first week of "

\* lowerText.match(/first week of (\w+) (\d{4})/): leftmost match or "none"
matchFirstWeek(s) ==
    LET hits == {i \in 1..Len(s) :
                    StartsAt(s, FirstWeekPrefix, i) /\ WordYearAt(s, i + Len(FirstWeekPrefix))}
    IN  IF hits = {} THEN [found |-> FALSE]
        ELSE [found |-> TRUE] @@ WordYearCapture(s, MinOf(hits) + Len(FirstWeekPrefix))

\* lowerText.match(/(\w+) (\d{4})/): leftmost match or "none"
matchMonthYear(s) ==
    LET hits == {i \in 1..Len(s) : WordYearAt(s, i)}
    IN  IF hits = {} THEN [found |-> FALSE]
        ELSE [found |-> TRUE] @@ WordYearCapture(s, MinOf(hits))

\* the tail \s*,?\s*(\d{4}) anchored at p: the year, or -1
BetweenYearAt(s, p) ==
    LET a == SkipSpace(s, p)
        b == IF Ch(s, a) = "," THEN a + 1 ELSE a
        c == SkipSpace(s, b)
    IN  IF \A k \in 0..3 : IsDigit(Ch(s, c + k)) THEN parseInt(SubSeq(s, c, c + 3)) ELSE -1

\* /between\s+(\w+\s+\d{1,2})\s+and\s+(\w+\s+\d{1,2})\s*,?\s*(\d{4})/ anchored at i
BetweenAt(s, i) ==
    LET a  == SkipSpace(s, i + Len("between"))
        b  == WordEnd(s, a)
        c  == SkipSpace(s, b + 1)
        e1 == DigitEnd(s, c)
        f  == SkipSpace(s, e1 + 1)
        g  == SkipSpace(s, f + Len("and"))
        h  == WordEnd(s, g)
        k  == SkipSpace(s, h + 1)
        \* \d{1,2} is greedy: two digits first, then one
        lens == IF IsDigit(Ch(s, k)) /\ IsDigit(Ch(s, k + 1)) THEN <<2, 1>>
                ELSE IF IsDigit(Ch(s, k)) THEN <<1>> ELSE <<>>
        ok == {n \in 1..Len(lens) : BetweenYearAt(s, k + lens[n]) # -1}
        head == /\ StartsAt(s, "between", i)
                /\ IsSpace(Ch(s, i + Len("between")))
                /\ b >= a /\ IsSpace(Ch(s, b + 1))
                /\ e1 >= c /\ e1 <= c + 1 /\ IsSpace(Ch(s, e1 + 1))
                /\ StartsAt(s, "and", f) /\ IsSpace(Ch(s, f + Len("and")))
                /\ h >= g /\ IsSpace(Ch(s, h + 1))
    IN  IF head /\ ok # {}
        THEN LET l2 == lens[MinOf(ok)] IN
             [found |-> TRUE,
              startMonth |-> SubSeq(s, a, b), startDay |-> parseInt(SubSeq(s, c, e1)),
              endMonth |-> SubSeq(s, g, h), endDay |-> parseInt(SubSeq(s, k, k + l2 - 1)),
              year |-> BetweenYearAt(s, k + l2)]
        ELSE [found |-> FALSE]

\* lowerText.match(/between.../i): leftmost match
\* String.prototype.match: of the attempts at every position, the leftmost
\* one that matches
FirstMatch(at) ==
    LET hits == {i \in DOMAIN at : at[i].found}
    IN  IF hits = {} THEN [found |-> FALSE] ELSE at[MinOf(hits)]

matchBetween(s) == FirstMatch([i \in 1..Len(s) |-> BetweenAt(s, i)])

NoDate == [found |-> FALSE]

DateRange(startInstant, endInstant, rule) ==
    [found |-> TRUE, startDate |-> toISODate(startInstant),
     endDate |-> toISODate(endInstant), rule |-> rule]

\* the month index of a match's month word, -1 when there is no match
monthIndexOf(found, word) == IF found THEN getMonthIndex(word) ELSE -1

firstWeekRange(m, monthIndex, e) ==
    IF m.found /\ monthIndex # -1
    THEN DateRange(NewDate(m.year, monthIndex, 1, e.tz),
                   NewDate(m.year, monthIndex, 1, e.tz) + 7 * MinutesPerDay,
                   "first week")
    ELSE NoDate

\* PRIORITY 1: "first week of <month> <year>"
dateFirstWeek(lowerText, e) ==
    LET Range(m) == firstWeekRange(m, monthIndexOf(m.found, m.word), e)
    IN  Range(matchFirstWeek(lowerText))

betweenRange(m, startIndex, endIndex, e) ==
    IF m.found /\ startIndex # -1 /\ endIndex # -1
    THEN DateRange(NewDate(m.year, startIndex, m.startDay, e.tz),
                   NewDate(m.year, endIndex, m.endDay + 1, e.tz),
                   "between")
    ELSE NoDate

\* PRIORITY 1.5: "between <month day> and <month day>, <year>"
dateBetween(lowerText, e) ==
    LET Range(m) == betweenRange(m, monthIndexOf(m.found, m.startMonth),
                                 monthIndexOf(m.found, m.endMonth), e)
    IN  Range(matchBetween(lowerText))

monthYearRange(m, monthIndex, e) ==
    IF m.found /\ monthIndex # -1
    THEN DateRange(NewDate(m.year, monthIndex, 1, e.tz),
                   NewDate(m.year, monthIndex + 1, 1, e.tz),
                   "month year")
    ELSE NoDate

\* PRIORITY 2: "<month> <year>"
dateMonthYear(lowerText, e) ==
    LET Range(m) == monthYearRange(m, monthIndexOf(m.found, m.word), e)
    IN  Range(matchMonthYear(lowerText))

\* "last month", relative to now (e.now: local year, 0-based month)
dateLastMonth(lowerText, e) ==
    IF Includes(lowerText, "last month")
    THEN DateRange(NewDate(e.now.y, e.now.m - 1, 1, e.tz),
                   NewDate(e.now.y, e.now.m, 0, e.tz),
                   "last month")
    ELSE NoDate

\* the first rule of the cascade that recognises a date
firstFound(rules) == rules[MinOf({i \in 1..Len(rules) : rules[i].found \/ i = Len(rules)})]

parseDateExpressions(text, e) ==
    IF text = "" THEN NoDate
    ELSE LET Cascade(lowerText) ==
                 firstFound(<<dateFirstWeek(lowerText, e), dateBetween(lowerText, e),
                              dateMonthYear(lowerText, e), dateLastMonth(lowerText, e)>>)
         IN  Cascade(toLowerCase(text))

----------------------------------------------------------------------------
(* Values bound as parameters: text, number or null *)

TextVal(t) == [kind |-> "text", text |-> t, num |-> 0]
NumVal(n)  == [kind |-> "num", text |-> "", num |-> n]
NullVal    == [kind |-> "null", text |-> "", num |-> 0]

Filter(column, operator, value) ==
    [column |-> column, operator |-> operator, value |-> value]

Aggregation(function, column, alias) ==
    [function |-> function, column |-> column, alias |-> alias]

\* Array.prototype.find: the first element that satisfies Test, as a sequence
\* of length 0 (undefined) or 1
FindFirst(q, Test(_)) == Slice(SelectSeq(q, Test), 1)

----------------------------------------------------------------------------
(* QueryGenerator.parseAggregations *)

IsDistanceColumn(col) ==
    \/ Includes(toLowerCase(col.columnName), "distance")
    \/ Includes(toLowerCase(col.columnName), "km")
    \/ Includes(toLowerCase(col.columnName), "meters")

\* PRIORITY 0: "average ride time"
aggAverageRideTime(lowerText) ==
    IF Includes(lowerText, "average")
       /\ (Includes(lowerText, "ride time") \/ Includes(lowerText, "journey"))
    THEN <<Aggregation("AVG", "duration_calculated", "average_ride_time_minutes")>>
    ELSE <<>>

\* PRIORITY 1: distance
aggDistance(columns) ==
    LET distanceColumns == SelectSeq(columns, IsDistanceColumn) IN
    IF Len(distanceColumns) > 0
    THEN LET name == distanceColumns[1].columnName IN
         IF Includes(toLowerCase(name), "km") \/ Includes(toLowerCase(name), "meters")
         THEN <<Aggregation("SUM", name, "total_kilometres")>>
         ELSE <<Aggregation("SUM", name, "total_distance")>>
    ELSE <<>>

\* "Top N by average"
aggTopByAverage(lowerText) ==
    IF Includes(lowerText, "distance") \/ Includes(lowerText, "trip distance")
    THEN <<Aggregation("AVG", "trip_distance_km", "average_distance")>>
    ELSE IF Includes(lowerText, "duration") \/ Includes(lowerText, "ride time")
    THEN <<Aggregation("AVG", "duration_calculated", "average_duration")>>
    ELSE <<Aggregation("AVG", "trip_distance_km", "average_value")>>

IsNumericColumn(col) ==
    \/ Includes(col.dataType, "numeric")
    \/ Includes(col.dataType, "integer")
    \/ Includes(col.dataType, "double")

IsMeaningfulColumn(col) ==
    /\ ~Includes(col.columnName, "id")
    /\ ~Includes(col.columnName, "_id")
    /\ col.columnName # "trip_id"
    /\ col.columnName # "bike_id"
    /\ col.columnName # "station_id"

\* generic average (lowest priority)
aggGenericAverage(columns) ==
    LET numericColumns == SelectSeq(columns, IsNumericColumn)
        meaningfulColumns == SelectSeq(numericColumns, IsMeaningfulColumn)
    IN  IF Len(numericColumns) > 0
        THEN IF Len(meaningfulColumns) > 0
             THEN <<Aggregation("AVG", meaningfulColumns[1].columnName, "average_value")>>
             ELSE <<Aggregation("COUNT", "*", "total_count")>>
        ELSE <<>>

\* the ranking vocabulary of the aggregation cascade
aggIsRanking(lowerText) ==
    \/ Includes(lowerText, "most") \/ Includes(lowerText, "highest")
    \/ Includes(lowerText, "busiest")
    \/ (Includes(lowerText, "which") /\ Includes(lowerText, "departures"))
    \/ (Includes(lowerText, "which") /\ Includes(lowerText, "station"))
    \/ (Includes(lowerText, "which") /\ Includes(lowerText, "dock"))
    \/ (Includes(lowerText, "which") /\ Includes(lowerText, "docking"))

\* the if / else-if chain that follows the "average ride time" test; branch
\* names the branch taken
aggCascade(lowerText, columns) ==
    IF \/ Includes(lowerText, "kilometres") \/ Includes(lowerText, "kilometers")
       \/ Includes(lowerText, "distance")
       \/ (Includes(lowerText, "how many")
           /\ (Includes(lowerText, "kilometres") \/ Includes(lowerText, "kilometers")))
    THEN [branch |-> "distance", aggs |-> aggDistance(columns)]
    ELSE IF aggIsRanking(lowerText)
    THEN [branch |-> "ranking", aggs |-> <<Aggregation("COUNT", "*", "departure_count")>>]
    ELSE IF Includes(lowerText, "how many") \/ Includes(lowerText, "count")
    THEN [branch |-> "count", aggs |-> <<Aggregation("COUNT", "*", "total_count")>>]
    ELSE IF \/ Includes(lowerText, "total rides") \/ Includes(lowerText, "number of departures")
            \/ (Includes(lowerText, "rides") /\ Includes(lowerText, "total"))
    THEN [branch |-> "total rides", aggs |-> <<Aggregation("COUNT", "*", "total_rides")>>]
    ELSE IF Includes(lowerText, "daily totals") \/ Includes(lowerText, "daily totals of")
    THEN [branch |-> "daily totals", aggs |-> <<Aggregation("COUNT", "*", "ride_count")>>]
    ELSE IF /\ Includes(lowerText, "top") /\ Includes(lowerText, "by")
            /\ (Includes(lowerText, "average") \/ Includes(lowerText, "avg"))
    THEN [branch |-> "top by average", aggs |-> aggTopByAverage(lowerText)]
    ELSE IF \/ Includes(lowerText, "under") \/ Includes(lowerText, "over")
            \/ Includes(lowerText, "age")
    THEN [branch |-> "age", aggs |-> <<>>]
    ELSE IF \/ Includes(lowerText, "departures on weekends")
            \/ Includes(lowerText, "weekend departures")
    THEN [branch |-> "weekend departures",
          aggs |-> <<Aggregation("COUNT", "*", "weekend_departures")>>]
    ELSE IF Includes(lowerText, "top 3") /\ Includes(lowerText, "average trip distance")
    THEN [branch |-> "top 3 average distance",
          aggs |-> <<Aggregation("AVG", "trip_distance_km", "average_distance")>>]
    ELSE IF \/ Includes(lowerText, "most arrivals")
            \/ Includes(lowerText, "destination station had the most")
    THEN [branch |-> "most arrivals", aggs |-> <<Aggregation("COUNT", "*", "arrival_count")>>]
    ELSE IF \/ Includes(lowerText, "sum distance by end station")
            \/ Includes(lowerText, "distance by end station")
    THEN [branch |-> "distance by end station",
          aggs |-> <<Aggregation("SUM", "trip_distance_km", "total_kilometres")>>]
    ELSE IF \/ Includes(lowerText, "busiest station by starts")
            \/ Includes(lowerText, "station by starts")
    THEN [branch |-> "station by starts",
          aggs |-> <<Aggregation("COUNT", "*", "departure_count")>>]
    ELSE IF \/ Includes(lowerText, "total rides last month")
            \/ Includes(lowerText, "rides last month")
    THEN [branch |-> "rides last month", aggs |-> <<Aggregation("COUNT", "*", "total_rides")>>]
    ELSE IF Includes(lowerText, "rainy weekdays") \/ Includes(lowerText, "rainy weekday")
    THEN [branch |-> "rainy weekdays",
          aggs |-> <<Aggregation("SUM", "trip_distance_km", "total_kilometres")>>]
    ELSE IF \/ Includes(lowerText, "speed") \/ Includes(lowerText, "pace")
            \/ Includes(lowerText, "km/h") \/ Includes(lowerText, "kph")
            \/ Includes(lowerText, "mph") \/ Includes(lowerText, "average speed")
    THEN [branch |-> "speed",
          aggs |-> <<Aggregation("SPEED", "speed_calculated", "average_speed_kmh")>>]
    ELSE IF \/ Includes(lowerText, "purchase") \/ Includes(lowerText, "purchased")
            \/ Includes(lowerText, "bought") \/ Includes(lowerText, "acquisition")
            \/ Includes(lowerText, "show bikes")
    THEN [branch |-> "bike purchase", aggs |-> <<>>]
    ELSE IF Includes(lowerText, "average") \/ Includes(lowerText, "avg")
    THEN [branch |-> "generic average", aggs |-> aggGenericAverage(columns)]
    ELSE [branch |-> "none", aggs |-> <<>>]

\* The speed branch returns the list built so far, which is what the other
\* branches return after the chain.
parseAggregations(text, columns) ==
    LET lowerText == toLowerCase(text) IN
    aggAverageRideTime(lowerText) \o aggCascade(lowerText, columns).aggs

----------------------------------------------------------------------------
(* QueryGenerator.parseFilters *)

IsDateType(col) == Includes(col.dataType, "timestamp") \/ Includes(col.dataType, "date")

\* the date column the temporal rule filters on: a sequence of length 0 or 1
pickDateColumn(lowerText, safeColumns, primaryTable) ==
    LET IsTripsStarted(col) == Includes(col.columnName, "started") /\ col.tableName = "trips"
        IsWeatherDate(col) == Includes(col.columnName, "weather") /\ col.tableName = "daily_weather"
        IsPrimaryDate(col) == IsDateType(col) /\ col.tableName = primaryTable
        forced == [columnName |-> "started_at", tableName |-> "trips",
                   dataType |-> "timestamp without time zone", score |-> 0]
        first ==
            IF \/ Includes(lowerText, "departures") \/ Includes(lowerText, "journeys")
               \/ Includes(lowerText, "trips") \/ Includes(lowerText, "ride")
               \/ Includes(lowerText, "docking") \/ Includes(lowerText, "women")
               \/ Includes(lowerText, "female") \/ Includes(lowerText, "which")
               \/ Includes(lowerText, "most")
            THEN IF Len(FindFirst(safeColumns, IsTripsStarted)) = 0
                 THEN <<forced>>
                 ELSE FindFirst(safeColumns, IsTripsStarted)
            ELSE IF /\ Includes(lowerText, "weather") /\ ~Includes(lowerText, "women")
                    /\ ~Includes(lowerText, "female") /\ ~Includes(lowerText, "ride")
            THEN FindFirst(safeColumns, IsWeatherDate)
            ELSE <<>>
        second == IF Len(first) = 0 THEN FindFirst(safeColumns, IsPrimaryDate) ELSE first
    IN  IF Len(second) = 0 THEN FindFirst(safeColumns, IsDateType) ELSE second

\* Temporal rule: two predicates, >= start and < end
temporalPredicates(dateInfo, dateColumn) ==
    IF dateInfo.found /\ Len(dateColumn) > 0
    THEN <<Filter(dateColumn[1].columnName, ">=", TextVal(dateInfo.startDate)),
           Filter(dateColumn[1].columnName, "<", TextVal(dateInfo.endDate))>>
    ELSE <<>>

filtersTemporal(text, lowerText, safeColumns, primaryTable, e) ==
    temporalPredicates(parseDateExpressions(text, e),
                       pickDateColumn(lowerText, safeColumns, primaryTable))

\* Gender rule
filtersGender(lowerText, safeColumns) ==
    LET IsGenderChar(col) ==
            /\ Includes(toLowerCase(col.columnName), "gender")
            /\ Includes(col.dataType, "character")
            /\ col.tableName = "trips"
        IsGenderOrRider(col) ==
            /\ (Includes(toLowerCase(col.columnName), "gender")
                \/ Includes(toLowerCase(col.columnName), "rider"))
            /\ col.tableName = "trips"
    IN  IF \/ Includes(lowerText, "women") \/ Includes(lowerText, "female")
           \/ Includes(lowerText, "woman")
        THEN IF Len(SelectSeq(safeColumns, IsGenderChar)) > 0
             THEN <<Filter(SelectSeq(safeColumns, IsGenderChar)[1].columnName, "=",
                           TextVal("female"))>>
             ELSE <<>>
        ELSE IF Includes(lowerText, "men") \/ Includes(lowerText, "male")
        THEN IF Len(SelectSeq(safeColumns, IsGenderOrRider)) > 0
             THEN <<Filter(SelectSeq(safeColumns, IsGenderOrRider)[1].columnName, "ILIKE",
                           TextVal("%male%"))>>
             ELSE <<>>
        ELSE <<>>

\* Location rule
filtersLocation(lowerText, safeColumns) ==
    LET IsStationName(col) ==
            /\ Includes(toLowerCase(col.columnName), "station")
            /\ Includes(col.dataType, "character")
            /\ col.tableName = "stations"
    IN  IF /\ (\/ Includes(lowerText, "congress avenue") \/ Includes(lowerText, "congress ave")
               \/ Includes(lowerText, "congress"))
           /\ Len(SelectSeq(safeColumns, IsStationName)) > 0
        THEN <<Filter(SelectSeq(safeColumns, IsStationName)[1].columnName, "=",
                      TextVal("Congress Avenue"))>>
        ELSE <<>>

\* the comparison operator of (>=|<=|=|>|<) anchored at i, or ""
CompareOpAt(s, i) ==
    IF StartsAt(s, ">=", i) THEN ">="
    ELSE IF StartsAt(s, "<=", i) THEN "<="
    ELSE IF StartsAt(s, "=", i) THEN "="
    ELSE IF StartsAt(s, ">", i) THEN ">"
    ELSE IF StartsAt(s, "<", i) THEN "<"
    ELSE ""

\* /(?:precipitation_mm|rain)\s*(>=|<=|=|>|<)\s*(\d+)/ anchored at i
PrecipCompareAt(s, i) ==
    LET w == IF StartsAt(s, "precipitation_mm", i) THEN Len("precipitation_mm")
             ELSE IF StartsAt(s, "rain", i) THEN Len("rain") ELSE 0
        a == SkipSpace(s, i + w)
        op == CompareOpAt(s, a)
        b == SkipSpace(s, a + Len(op))
    IN  IF w > 0 /\ op # "" /\ IsDigit(Ch(s, b))
        THEN [found |-> TRUE, operator |-> op, value |-> parseInt(SubSeq(s, b, DigitEnd(s, b)))]
        ELSE [found |-> FALSE]

matchPrecipCompare(s) ==
    LET hits == {i \in 1..Len(s) : PrecipCompareAt(s, i).found}
    IN  IF hits = {} THEN [found |-> FALSE] ELSE PrecipCompareAt(s, MinOf(hits))

\* Weather rule: rainy, numeric comparison, dry
filtersWeather(lowerText) ==
    LET rainy == IF \/ Includes(lowerText, "rainy") \/ Includes(lowerText, "rain")
                    \/ Includes(lowerText, "wet")
                 THEN <<Filter("precipitation_mm", ">", NumVal(0))>> ELSE <<>>
        m == matchPrecipCompare(lowerText)
        numeric ==
            IF /\ (\/ Includes(lowerText, "precipitation_mm")
                   \/ (Includes(lowerText, "rain")
                       /\ (\/ Includes(lowerText, ">=") \/ Includes(lowerText, "<=")
                           \/ Includes(lowerText, "="))))
               /\ m.found
            THEN <<Filter("precipitation_mm", m.operator, NumVal(m.value))>> ELSE <<>>
        dry == IF /\ (\/ Includes(lowerText, "non-rainy") \/ Includes(lowerText, "dry")
                      \/ Includes(lowerText, "not rainy"))
                  /\ ~Includes(lowerText, "rainy") /\ ~Includes(lowerText, "rain")
                  /\ ~Includes(lowerText, "wet")
               THEN <<Filter("precipitation_mm", "=", NumVal(0))>> ELSE <<>>
    IN  rainy \o numeric \o dry

\* /c(\d+)°?c?/ for a one-character c: the number after the leftmost c that a
\* digit follows, or the default
NumberAfter(s, c, default) ==
    LET hits == {i \in 1..Len(s) : Ch(s, i) = c /\ IsDigit(Ch(s, i + 1))}
    IN  IF hits = {} THEN default
        ELSE parseInt(SubSeq(s, MinOf(hits) + 1, DigitEnd(s, MinOf(hits) + 1)))

\* Temperature rule
filtersTemperature(lowerText) ==
    IF \/ Includes(lowerText, "hot") \/ Includes(lowerText, ">30")
       \/ Includes(lowerText, "30°c")
    THEN <<Filter("high_temp_c", ">", NumVal(NumberAfter(lowerText, ">", 30)))>>
    ELSE IF \/ Includes(lowerText, "cold") \/ Includes(lowerText, "<0")
            \/ Includes(lowerText, "0°c")
    THEN <<Filter("low_temp_c", "<", NumVal(NumberAfter(lowerText, "<", 0)))>>
    ELSE <<>>

\* /(under|over)\s+(\d+)/ anchored at i
AgeAt(s, i) ==
    LET word == IF StartsAt(s, "under", i) THEN "under"
                ELSE IF StartsAt(s, "over", i) THEN "over" ELSE ""
        a == SkipSpace(s, i + Len(word))
    IN  IF word # "" /\ IsSpace(Ch(s, i + Len(word))) /\ IsDigit(Ch(s, a))
        THEN [found |-> TRUE, comparison |-> word,
              age |-> parseInt(SubSeq(s, a, DigitEnd(s, a)))]
        ELSE [found |-> FALSE]

matchAge(s) ==
    LET hits == {i \in 1..Len(s) : AgeAt(s, i).found}
    IN  IF hits = {} THEN [found |-> FALSE] ELSE AgeAt(s, MinOf(hits))

AgeReferenceYear == 2025

\* Age rule
filtersAge(lowerText) ==
    LET m == matchAge(lowerText) IN
    IF /\ (\/ Includes(lowerText, "under") \/ Includes(lowerText, "over")
           \/ Includes(lowerText, "age"))
       /\ m.found
    THEN IF m.comparison = "under"
         THEN <<Filter("rider_birth_year", ">", NumVal(AgeReferenceYear - m.age))>>
         ELSE <<Filter("rider_birth_year", "<", NumVal(AgeReferenceYear - m.age))>>
    ELSE <<>>

\* Weekend / weekday rules
filtersWeekend(lowerText) ==
    (IF Includes(lowerText, "weekend") \/ Includes(lowerText, "weekends")
     THEN <<Filter("started_at", "WEEKEND", NullVal)>> ELSE <<>>)
    \o
    (IF Includes(lowerText, "weekday") \/ Includes(lowerText, "weekdays")
     THEN <<Filter("started_at", "WEEKDAY", NullVal)>> ELSE <<>>)

\* QueryGenerator.getMonthNumber: 0-based month, 0 for an unknown name
MonthAbbreviations ==
    <<<<"jan">>, <<"feb">>, <<"mar">>, <<"apr">>, <<>>, <<"jun">>,
      <<"jul">>, <<"aug">>, <<"sep", "sept">>, <<"oct">>, <<"nov">>, <<"dec">>>>

getMonthNumber(monthName) ==
    LET lm == toLowerCase(monthName)
        hits == {i \in 1..Len(MonthNames) :
                    MonthNames[i] = lm \/ lm \in SeqToSet(MonthAbbreviations[i])}
    IN  IF hits = {} THEN 0 ELSE MinOf(hits) - 1

\* (\w+)\s+(\d{4}) anchored at i
WordSpacesYearAt(s, i) ==
    /\ IsWordChar(Ch(s, i))
    /\ LET j == WordEnd(s, i)
           a == SkipSpace(s, j + 1)
       IN  IsSpace(Ch(s, j + 1)) /\ \A k \in 0..3 : IsDigit(Ch(s, a + k))

\* lowerText.match(/(\w+)\s+(\d{4})/)
matchWordSpacesYear(s) ==
    LET hits == {i \in 1..Len(s) : WordSpacesYearAt(s, i)}
        i0 == MinOf(hits)
        a == SkipSpace(s, WordEnd(s, i0) + 1)
    IN  IF hits = {} THEN [found |-> FALSE]
        ELSE [found |-> TRUE, word |-> SubSeq(s, i0, WordEnd(s, i0)),
              year |-> parseInt(SubSeq(s, a, a + 3))]

\* Last-day-of-month rule: rewrites the filters accumulated so far
filtersLastDay(lowerText, filters, e) ==
    LET m == matchWordSpacesYear(lowerText)
        IsNonDate(f) == ~Includes(f.column, "started_at") /\ ~Includes(f.column, "ended_at")
    IN  IF (Includes(lowerText, "last day") \/ Includes(lowerText, "last day of")) /\ m.found
        THEN SelectSeq(filters, IsNonDate) \o
             <<Filter("started_at", ">=",
                      TextVal(toISODate(NewDate(m.year, getMonthNumber(m.word), 0, e.tz)))),
               Filter("started_at", "<",
                      TextVal(toISODate(NewDate(m.year, getMonthNumber(m.word), 1, e.tz))))>>
        ELSE filters

\* the alternatives of the "by <dimension>" pattern, in pattern order
ByDimensions ==
    <<"station", "end station", "start station", "starts", "day", "date",
      "gender", "bike", "model", "distance", "trip distance">>

\* /\bby\b\s+(?<dim>...)/ anchored at i: the dimension matched, or ""
ByDimensionAt(s, i) ==
    LET a == SkipSpace(s, i + Len("by"))
        alts == {n \in 1..Len(ByDimensions) : StartsAt(s, ByDimensions[n], a)}
    IN  IF /\ StartsAt(s, "by", i)
           /\ ~IsWordChar(Ch(s, i - 1))
           /\ IsSpace(Ch(s, i + Len("by")))
           /\ alts # {}
        THEN ByDimensions[MinOf(alts)]
        ELSE ""

matchByDimension(s) ==
    LET hits == {i \in 1..Len(s) : ByDimensionAt(s, i) # ""}
    IN  IF hits = {} THEN "" ELSE ByDimensionAt(s, MinOf(hits))

\* Grouping-dimension rule
filtersByDimension(lowerText) ==
    LET dimension == matchByDimension(lowerText) IN
    IF dimension \in {"station", "end station", "start station", "starts"}
    THEN <<Filter("group_by_station", "DIMENSION", TextVal(dimension))>>
    ELSE IF dimension \in {"distance", "trip distance"}
    THEN <<Filter("group_by_station", "DIMENSION", TextVal(dimension))>>
    ELSE IF dimension \in {"day", "date"}
    THEN <<Filter("group_by_date", "DIMENSION", TextVal(dimension))>>
    ELSE IF dimension = "gender"
    THEN <<Filter("group_by_gender", "DIMENSION", TextVal(dimension))>>
    ELSE IF dimension \in {"bike", "model"}
    THEN <<Filter("group_by_bike", "DIMENSION", TextVal(dimension))>>
    ELSE <<>>

parseFilters(text, columns, primaryTable, e) ==
    IF text = "" THEN <<>>
    ELSE LET lowerText == toLowerCase(text)
             accumulated ==
                 filtersTemporal(text, lowerText, columns, primaryTable, e)
                 \o filtersGender(lowerText, columns)
                 \o filtersLocation(lowerText, columns)
                 \o filtersWeather(lowerText)
                 \o filtersTemperature(lowerText)
                 \o filtersAge(lowerText)
                 \o filtersWeekend(lowerText)
         IN  filtersLastDay(lowerText, accumulated, e) \o filtersByDimension(lowerText)

----------------------------------------------------------------------------
(* QueryGenerator.buildSQLQuery *)

getTableAlias(tableName) ==
    IF tableName = "trips" THEN "t"
    ELSE IF tableName = "stations" THEN "s"
    ELSE IF tableName = "daily_weather" THEN "w"
    ELSE IF tableName = "bikes" THEN "b"
    ELSE "t"

isBikeRelatedQuery(text) ==
    LET lowerText == toLowerCase(text) IN
    \/ /\ Includes(lowerText, "bikes")
       /\ (\/ Includes(lowerText, "purchased") \/ Includes(lowerText, "bought")
           \/ Includes(lowerText, "acquisition") \/ Includes(lowerText, "show bikes"))
    \/ /\ Includes(lowerText, "bike")
       /\ (\/ Includes(lowerText, "where") \/ Includes(lowerText, "currently")
           \/ Includes(lowerText, "docked"))

isSpeedQuery(text) ==
    LET lowerText == toLowerCase(text) IN
    \/ Includes(lowerText, "speed") \/ Includes(lowerText, "pace")
    \/ Includes(lowerText, "km/h") \/ Includes(lowerText, "kph")
    \/ Includes(lowerText, "mph") \/ Includes(lowerText, "average speed")

\* isRankingQuery of the SELECT and GROUP BY sections
isRankingQuery(lt) ==
    \/ Includes(lt, "most") \/ Includes(lt, "highest") \/ Includes(lt, "busiest")
    \/ (Includes(lt, "which") /\ Includes(lt, "departures"))
    \/ (Includes(lt, "which") /\ Includes(lt, "station"))

DurationExpr == "ROUND(AVG(EXTRACT(EPOCH FROM (t.ended_at - t.started_at)) / 60)::numeric, 0)"

\* aggregations.map(...) of the ranking branch
aggregationClause(agg, primaryAlias) ==
    IF agg.column = "duration_calculated"
    THEN DurationExpr \o " AS " \o agg.alias
    ELSE IF agg.function = "COUNT" /\ agg.column = "*"
    THEN "COUNT(*) AS " \o agg.alias
    ELSE IF agg.function = "SUM" /\ agg.alias = "total_kilometres"
    THEN IF Includes(agg.column, "meters")
         THEN "ROUND(SUM(" \o primaryAlias \o "." \o agg.column \o ") * 0.001, 1) AS " \o agg.alias
         ELSE "ROUND(SUM(" \o primaryAlias \o "." \o agg.column \o "), 1) AS " \o agg.alias
    ELSE agg.function \o "(" \o primaryAlias \o "." \o agg.column \o ") AS " \o agg.alias

\* the single aggregate of a scalar query
scalarAggregateClause(agg, columns, primaryAlias) ==
    IF ~(\E i \in 1..Len(columns) : columns[i].columnName = agg.column)
    THEN "COUNT(*) AS " \o agg.alias
    ELSE IF agg.column = "duration_calculated"
    THEN DurationExpr \o " AS " \o agg.alias
    ELSE IF agg.function = "SUM" /\ agg.alias = "total_kilometres"
    THEN IF Includes(agg.column, "meters")
         THEN "ROUND(SUM(" \o primaryAlias \o "." \o agg.column \o ") * 0.001, 1) AS " \o agg.alias
         ELSE "ROUND(SUM(" \o primaryAlias \o "." \o agg.column \o "), 1) AS " \o agg.alias
    ELSE IF agg.function = "SPEED"
    THEN "ROUND((SUM(t.trip_distance_km) / NULLIF(SUM(EXTRACT(EPOCH FROM (t.ended_at - t.started_at))) / 3600.0, 0)), 1) AS "
         \o agg.alias
    ELSE agg.function \o "(" \o primaryAlias \o "." \o agg.column \o ") AS " \o agg.alias

RECURSIVE MapAggregationClauses(_, _)
MapAggregationClauses(aggs, primaryAlias) ==
    IF Len(aggs) = 0 THEN <<>>
    ELSE <<aggregationClause(Head(aggs), primaryAlias)>>
         \o MapAggregationClauses(Tail(aggs), primaryAlias)

RECURSIVE QualifyColumns(_, _)
QualifyColumns(cols, primaryAlias) ==
    IF Len(cols) = 0 THEN <<>>
    ELSE <<primaryAlias \o "." \o Head(cols).columnName>>
         \o QualifyColumns(Tail(cols), primaryAlias)

DisplayColumnCap == 5

\* SELECT clause before the station label is prepended
buildSelectClause(primaryTable, columns, aggregations, text) ==
    LET lt == toLowerCase(text)
        primaryAlias == getTableAlias(primaryTable)
        isScalarAggregation ==
            /\ ~Includes(lt, "most") /\ ~Includes(lt, "docking")
            /\ ~(Includes(lt, "which") /\ Includes(lt, "departures"))
        IsPrimary(col) == col.tableName = primaryTable
        primaryTableColumns == Slice(SelectSeq(columns, IsPrimary), DisplayColumnCap)
    IN  IF /\ (Includes(lt, "average") \/ Includes(lt, "mean"))
           /\ (\/ Includes(lt, "ride time") \/ Includes(lt, "journey")
               \/ Includes(lt, "trip duration") \/ Includes(lt, "duration"))
        THEN "SELECT " \o DurationExpr \o " AS average_ride_time_minutes"
        ELSE IF Includes(lt, "mean") /\ Includes(lt, "trip duration")
        THEN "SELECT " \o DurationExpr \o " AS mean_trip_duration_minutes"
        ELSE IF isSpeedQuery(text)
        THEN "SELECT ROUND(SUM(t.trip_distance_km) / NULLIF(SUM(EXTRACT(EPOCH FROM (t.ended_at - t.started_at)) / 3600.0), 0), 2) AS average_speed_kmh"
        ELSE IF Len(aggregations) > 0
        THEN IF isScalarAggregation
             THEN "SELECT " \o scalarAggregateClause(aggregations[1], columns, primaryAlias)
             ELSE "SELECT " \o Join(MapAggregationClauses(aggregations, primaryAlias), ", ")
        ELSE IF Len(primaryTableColumns) > 0
        THEN "SELECT " \o Join(QualifyColumns(primaryTableColumns, primaryAlias), ", ")
        ELSE "SELECT " \o primaryAlias \o ".*"

\* JOIN need-analysis
needsStationInfo(filters, lt) ==
    \/ \E i \in 1..Len(filters) :
          Includes(filters[i].column, "station") \/ Includes(filters[i].column, "name")
    \/ Includes(lt, "congress") \/ Includes(lt, "avenue") \/ Includes(lt, "most")
    \/ Includes(lt, "departures") \/ Includes(lt, "docking")
    \/ \E i \in 1..Len(filters) : StartsWith(filters[i].column, "group_by_station")

needsEndStationInfo(lt) ==
    /\ Includes(lt, "to")
    /\ (\/ Includes(lt, "congress") \/ Includes(lt, "state street")
        \/ Includes(lt, "destination") \/ Includes(lt, "end station"))

needsWeatherInfo(filters, lt, llm) ==
    \/ \E i \in 1..Len(filters) :
          LET c == filters[i].column IN
          \/ c = "precipitation_mm" \/ Includes(c, "precipitation")
          \/ Includes(c, "condition") \/ Includes(c, "high_temp_c")
          \/ Includes(c, "low_temp_c")
          \/ (Includes(c, "weather") /\ ~Includes(c, "weather_date"))
    \/ Includes(lt, "wet") \/ Includes(lt, "rainy") \/ Includes(lt, "rain")
    \/ Includes(lt, "precipitation")
    \/ Includes(lt, "hot") \/ Includes(lt, "cold") \/ Includes(lt, ">30")
    \/ Includes(lt, "<0") \/ Includes(lt, "30°c") \/ Includes(lt, "0°c")
    \/ llm.weatherFilter # ""

StationJoin(primaryAlias) ==
    " JOIN stations s ON " \o primaryAlias \o ".start_station_id = s.station_id"
EndStationJoin(primaryAlias) ==
    " JOIN stations s2 ON " \o primaryAlias \o ".end_station_id = s2.station_id"
WeatherJoin(primaryAlias) ==
    " JOIN daily_weather w ON DATE(" \o primaryAlias \o ".started_at) = w.weather_date"
BikeStationJoin(primaryAlias) ==
    " JOIN stations s ON " \o primaryAlias \o ".current_station_id = s.station_id"

\* joins, usedAliases and tableAliasMap after the "intelligent JOINs" and the
\* bikes section; aliasMap is the key set of tableAliasMap
buildJoins(primaryTable, filters, lt, llm) ==
    LET pa == getTableAlias(primaryTable)
        trips == primaryTable = "trips"
        st == trips /\ needsStationInfo(filters, lt) /\ "s" # pa
        en == trips /\ needsEndStationInfo(lt) /\ "s2" # pa
        we == trips /\ needsWeatherInfo(filters, lt, llm) /\ "w" # pa
        bk == /\ primaryTable = "bikes"
              /\ (\/ Includes(lt, "where") \/ Includes(lt, "currently")
                  \/ Includes(lt, "docked"))
              /\ "s" # pa
    IN  [joins |-> (IF st THEN <<StationJoin(pa)>> ELSE <<>>)
                   \o (IF en THEN <<EndStationJoin(pa)>> ELSE <<>>)
                   \o (IF we THEN <<WeatherJoin(pa)>> ELSE <<>>)
                   \o (IF bk THEN <<BikeStationJoin(pa)>> ELSE <<>>),
         usedAliases |-> {pa} \cup (IF st \/ bk THEN {"s"} ELSE {})
                              \cup (IF en THEN {"s2"} ELSE {})
                              \cup (IF we THEN {"w"} ELSE {}),
         aliasMap |-> (IF st \/ bk THEN {"stations"} ELSE {})
                      \cup (IF en THEN {"end_stations"} ELSE {})
                      \cup (IF we THEN {"daily_weather"} ELSE {})]

\* first loop over llmAnalysis.groupingDimensions: may add the s2 join
RECURSIVE joinsForGroupingDimensions(_, _, _)
joinsForGroupingDimensions(dims, j, pa) ==
    IF Len(dims) = 0 THEN j
    ELSE LET dim == Head(dims).text IN
         IF /\ Includes(dim, "end station") /\ "stations" \in j.aliasMap
            /\ "s2" \notin j.usedAliases
         THEN joinsForGroupingDimensions(Tail(dims),
                 [joins |-> Append(j.joins, EndStationJoin(pa)),
                  usedAliases |-> j.usedAliases \cup {"s2"},
                  aliasMap |-> j.aliasMap \cup {"end_stations"}], pa)
         ELSE joinsForGroupingDimensions(Tail(dims), j, pa)

\* group columns pushed by the loops over llmAnalysis.groupingDimensions;
\* endKey is the tableAliasMap key the 'end station' branch tests
RECURSIVE groupColumnsForDimensions(_, _, _, _)
groupColumnsForDimensions(dims, aliasMap, pa, endKey) ==
    IF Len(dims) = 0 THEN <<>>
    ELSE LET dim == Head(dims).text
             this ==
                 IF Includes(dim, "end station") /\ endKey \in aliasMap
                 THEN <<"s2.station_name">>
                 ELSE IF \/ Includes(dim, "start station") \/ Includes(dim, "station")
                         \/ Includes(dim, "dock") \/ Includes(dim, "docking point")
                 THEN IF "stations" \in aliasMap THEN <<"s.station_name">> ELSE <<>>
                 ELSE IF Includes(dim, "gender") \/ Includes(dim, "rider")
                 THEN <<pa \o ".rider_gender">>
                 ELSE IF Includes(dim, "date") \/ Includes(dim, "day")
                 THEN <<"DATE(" \o pa \o ".started_at)">>
                 ELSE IF Includes(dim, "weekday") \/ Includes(dim, "weekend")
                 THEN <<"DATE(" \o pa \o ".started_at)">>
                 ELSE <<>>
         IN  this \o groupColumnsForDimensions(Tail(dims), aliasMap, pa, endKey)

IsGroupingFilter(f) == StartsWith(f.column, "group_by_")
IsWhereFilter(f) == ~IsGroupingFilter(f)

\* one element of whereFilters.map(...): the condition text, the values it
\* pushes on params and the paramIndex it leaves behind
\* the index does not move past the placeholders just written
paramIndexStuck(paramIndex, pushed) == paramIndex

\* paramIndex++ after every placeholder written
advanceParamIndex(paramIndex, pushed) == paramIndex + Len(pushed)

renderCondition(filter, aliasMap, pa, paramIndex) ==
    LET stationCol == Includes(filter.column, "station") \/ Includes(filter.column, "name")
        weatherCol == Includes(filter.column, "weather") \/ Includes(filter.column, "precipitation")
        degraded == \/ (stationCol /\ "stations" \notin aliasMap)
                    \/ (~stationCol /\ weatherCol /\ "daily_weather" \notin aliasMap)
        qualifiedColumn ==
            IF stationCol THEN "s." \o filter.column
            ELSE IF weatherCol THEN "w." \o filter.column
            ELSE pa \o "." \o filter.column
        Rendered(condition, pushed) ==
            [condition |-> condition, pushed |-> pushed,
             paramIndex |-> advanceParamIndex(paramIndex, pushed)]
    IN  IF degraded
        THEN Rendered("1=0", <<>>)
        ELSE IF filter.operator = "ILIKE"
        THEN Rendered(qualifiedColumn \o " ILIKE $" \o numToStr(paramIndex), <<filter.value>>)
        ELSE IF filter.operator = "IN"
        THEN Rendered(qualifiedColumn \o " IN ("
                  \o Join([k \in 1..Len(filter.value.items) |->
                              "$" \o numToStr(paramIndex + k - 1)], ", ") \o ")",
                      filter.value.items)
        ELSE IF filter.operator = "WEEKEND"
        THEN Rendered("EXTRACT(DOW FROM " \o qualifiedColumn \o ") IN (0,6)", <<>>)
        ELSE IF filter.operator = "WEEKDAY"
        THEN Rendered("EXTRACT(DOW FROM " \o qualifiedColumn \o ") BETWEEN 1 AND 5", <<>>)
        ELSE Rendered(qualifiedColumn \o " " \o filter.operator \o " $"
                  \o numToStr(paramIndex), <<filter.value>>)

RECURSIVE renderConditions(_, _, _, _)
renderConditions(whereFilters, aliasMap, pa, paramIndex) ==
    IF Len(whereFilters) = 0 THEN [conditions |-> <<>>, params |-> <<>>]
    ELSE LET r == renderCondition(Head(whereFilters), aliasMap, pa, paramIndex)
             rest == renderConditions(Tail(whereFilters), aliasMap, pa, r.paramIndex)
         IN  [conditions |-> <<r.condition>> \o rest.conditions,
              params |-> r.pushed \o rest.params]

buildWhereClause(filters, aliasMap, pa) ==
    LET whereFilters == SelectSeq(filters, IsWhereFilter)
        r == renderConditions(whereFilters, aliasMap, pa, 1)
    IN  IF Len(whereFilters) > 0
        THEN [clause |-> " WHERE " \o Join(r.conditions, " AND "), params |-> r.params]
        ELSE [clause |-> "", params |-> <<>>]

RECURSIVE groupColumnsForFilters(_, _, _, _)
groupColumnsForFilters(groupingFilters, aliasMap, primaryTable, pa) ==
    IF Len(groupingFilters) = 0 THEN <<>>
    ELSE LET c == Head(groupingFilters).column
             this ==
                 IF c = "group_by_station" /\ "stations" \in aliasMap
                 THEN <<"s.station_name">>
                 ELSE IF c = "group_by_date" /\ primaryTable = "trips"
                 THEN <<"DATE(" \o pa \o ".started_at)">>
                 ELSE IF c = "group_by_gender" /\ primaryTable = "trips"
                 THEN <<pa \o ".rider_gender">>
                 ELSE IF c = "group_by_bike" /\ primaryTable = "trips"
                 THEN <<pa \o ".bike_id">>
                 ELSE <<>>
         IN  this \o groupColumnsForFilters(Tail(groupingFilters), aliasMap, primaryTable, pa)

\* GROUP BY derived from the filters and the question
inferredGroupBy(primaryTable, columns, aggregations, filters, lt, aliasMap) ==
    LET pa == getTableAlias(primaryTable)
        groupingFilters == SelectSeq(filters, IsGroupingFilter)
        groupColumns == groupColumnsForFilters(groupingFilters, aliasMap, primaryTable, pa)
    IN  IF Len(groupingFilters) > 0
        THEN IF Len(groupColumns) > 0
             THEN " GROUP BY " \o Join(groupColumns, ", ") ELSE ""
        ELSE IF Len(aggregations) > 0
        THEN IF /\ isRankingQuery(lt)
                /\ \E i \in 1..Len(aggregations) :
                      aggregations[i].function = "COUNT" /\ aggregations[i].column = "*"
             THEN IF Includes(lt, "departures") /\ "stations" \in aliasMap
                  THEN " GROUP BY s.station_name"
                  ELSE IF Includes(lt, "station") \/ Includes(lt, "dock")
                  THEN IF "stations" \in aliasMap THEN " GROUP BY s.station_name" ELSE ""
                  ELSE IF Len(columns) > 0
                  THEN " GROUP BY " \o pa \o "." \o columns[1].columnName
                  ELSE ""
             ELSE ""
        ELSE ""

\* the final GROUP BY: advisory grouping dimensions replace the inferred one
buildGroupByClause(primaryTable, columns, aggregations, filters, lt, aliasMap, llm) ==
    LET pa == getTableAlias(primaryTable)
        groupColumns ==
            groupColumnsForDimensions(llm.groupingDimensions, aliasMap, pa, "end_stations")
    IN  IF Len(llm.groupingDimensions) > 0 /\ Len(groupColumns) > 0
        THEN " GROUP BY " \o Join(groupColumns, ", ")
        ELSE inferredGroupBy(primaryTable, columns, aggregations, filters, lt, aliasMap)

buildOrderByClause(aggregations, lt) ==
    IF Len(aggregations) > 0
    THEN IF isRankingQuery(lt) \/ Includes(lt, "top")
         THEN IF Includes(lt, "departures")
              THEN " ORDER BY departure_count DESC"
              ELSE IF aggregations[1].alias # ""
              THEN " ORDER BY " \o aggregations[1].alias \o " DESC"
              ELSE ""
         ELSE ""
    ELSE ""

\* /top\s+(\d+)/ : start of the digits of the leftmost match, 0 when none
TopDigitsAt(s, i) ==
    IF StartsAt(s, "top", i) /\ IsSpace(Ch(s, i + 3))
    THEN LET d == SkipSpace(s, i + 3) IN IF IsDigit(Ch(s, d)) THEN d ELSE 0
    ELSE 0

matchTopN(s) ==
    LET hits == {i \in 1..Len(s) : TopDigitsAt(s, i) # 0}
    IN  IF hits = {} THEN [found |-> FALSE]
        ELSE LET d == TopDigitsAt(s, MinOf(hits))
             IN  [found |-> TRUE, n |-> parseInt(SubSeq(s, d, DigitEnd(s, d)))]

buildLimitClause(lt) ==
    LET topMatch == matchTopN(lt)
    IN  IF topMatch.found THEN " LIMIT " \o numToStr(topMatch.n)
        ELSE IF isRankingQuery(lt) THEN " LIMIT 1"
        ELSE ""

\* llmAnalysis as buildSQLQuery reads it: the grouping dimensions and
\* filters.weatherFilter ("" when absent)
\* dim.includes(...) on an element that is no string: the loop over
\* groupingDimensions throws, "" when every element is a string
DimensionTypeError == "TypeError: dim.includes is not a function"
dimensionTypeError(dims) ==
    IF \E i \in 1..Len(dims) : dims[i].kind # "text" THEN DimensionTypeError ELSE ""

buildSQLQuery(primaryTable, columns, aggregations, filters, text, llm) ==
    LET lt == toLowerCase(text)
        pa == getTableAlias(primaryTable)
        needsStationName ==
            isRankingQuery(lt) \/ Includes(lt, "which") \/ Includes(lt, "docking point")
        j0 == buildJoins(primaryTable, filters, lt, llm)
        j == joinsForGroupingDimensions(llm.groupingDimensions, j0, pa)
        fromClause == " FROM " \o primaryTable \o " " \o pa \o Join(j.joins, "")
        select0 == buildSelectClause(primaryTable, columns, aggregations, text)
        selectClause ==
            IF \/ /\ needsStationName /\ needsStationInfo(filters, lt)
                  /\ "stations" \in j.aliasMap
               \/ \E i \in 1..Len(filters) : StartsWith(filters[i].column, "group_by_station")
            THEN "SELECT s.station_name, " \o Substring(select0, 7)
            ELSE select0
        where == buildWhereClause(filters, j.aliasMap, pa)
        groupByClause ==
            buildGroupByClause(primaryTable, columns, aggregations, filters, lt, j.aliasMap, llm)
        orderByClause == buildOrderByClause(aggregations, lt)
        limitClause == buildLimitClause(lt)
    IN  [sql |-> selectClause \o fromClause \o where.clause \o groupByClause
                 \o orderByClause \o limitClause,
         params |-> where.params,
         thrown |-> dimensionTypeError(llm.groupingDimensions)]

----------------------------------------------------------------------------
(* QueryGenerator.generateQuery *)

NoRelevantTables == "No relevant tables found for the query"

TableScoreFloor == 0 - 5
TableCap == 3
ColumnCap == 15

AboveFloor(m) == m.score > TableScoreFloor

IsTimestampColumn(col) ==
    Includes(col.dataType, "timestamp") \/ Includes(col.dataType, "date")

\* first element of the highest score: head of a stable descending sort
TopScored(q) ==
    LET best == CHOOSE i \in 1..Len(q) :
                    /\ \A k \in 1..Len(q) : q[k].score <= q[i].score
                    /\ \A k \in 1..(i - 1) : q[k].score < q[i].score
    IN  q[best]

\* the choice without the rule that puts trips back when it is relevant
choosePrimaryByTimestamp(text, relevantTables, relevantColumns) ==
    LET lt == toLowerCase(text)
        timestampColumns == SelectSeq(relevantColumns, IsTimestampColumn)
        p1 == IF Len(timestampColumns) > 0 THEN TopScored(timestampColumns).tableName
              ELSE "trips"
        p3 == IF \/ Includes(lt, "departures") \/ Includes(lt, "journeys")
                 \/ Includes(lt, "trips") \/ Includes(lt, "ride")
                 \/ Includes(lt, "docking")
              THEN "trips" ELSE p1
    IN  IF isBikeRelatedQuery(text) THEN "bikes" ELSE p3

choosePrimaryTable(text, relevantTables, relevantColumns) ==
    LET lt == toLowerCase(text)
        timestampColumns == SelectSeq(relevantColumns, IsTimestampColumn)
        p1 == IF Len(timestampColumns) > 0 THEN TopScored(timestampColumns).tableName
              ELSE "trips"
        p2 == IF (\E i \in 1..Len(relevantTables) : relevantTables[i].tableName = "trips")
                 /\ p1 # "trips"
              THEN "trips" ELSE p1
        p3 == IF \/ Includes(lt, "departures") \/ Includes(lt, "journeys")
                 \/ Includes(lt, "trips") \/ Includes(lt, "ride")
                 \/ Includes(lt, "docking")
              THEN "trips" ELSE p2
    IN  IF isBikeRelatedQuery(text) THEN "bikes" ELSE p3

isT1Query(text) ==
    LET lt == toLowerCase(text) IN
    /\ Includes(lt, "average")
    /\ (Includes(lt, "ride time") \/ Includes(lt, "journey"))
    /\ Includes(lt, "congress avenue")

T1Plan ==
    [ok |-> TRUE,
     sql |-> "SELECT ROUND(AVG(EXTRACT(EPOCH FROM (t.ended_at - t.started_at)) / 60)::numeric, 0) AS average_ride_time_minutes FROM trips t JOIN stations s ON t.start_station_id = s.station_id WHERE t.started_at >= $1 AND t.started_at < $2 AND s.station_name = $3",
     params |-> <<TextVal("2025-06-01"), TextVal("2025-07-01"), TextVal("Congress Avenue")>>,
     tables |-> <<"trips", "stations">>,
     columns |-> <<"started_at", "ended_at", "station_name">>,
     aggregations |-> <<Aggregation("AVG", "duration_calculated", "average_ride_time_minutes")>>,
     filters |-> <<Filter("started_at", ">=", TextVal("2025-06-01")),
                   Filter("started_at", "<", TextVal("2025-07-01")),
                   Filter("station_name", "=", TextVal("Congress Avenue"))>>]

\* the ParsedQuery returned for the plan that buildSQLQuery built; what
\* buildSQLQuery throws rejects the call, nothing catches it
parsedQuery(built, relevantTables, relevantColumns, aggregations, filters) ==
    IF built.thrown # "" THEN [ok |-> FALSE, error |-> built.thrown]
    ELSE
    [ok |-> TRUE, sql |-> built.sql, params |-> built.params,
     tables |-> [i \in 1..Len(relevantTables) |-> relevantTables[i].tableName],
     columns |-> [i \in 1..Len(relevantColumns) |-> relevantColumns[i].columnName],
     aggregations |-> aggregations, filters |-> filters]

assemblePlan(primaryTable, relevantTables, relevantColumns, aggregations, filters, text, llm) ==
    IF isT1Query(text) THEN T1Plan
    ELSE parsedQuery(buildSQLQuery(primaryTable, relevantColumns, aggregations, filters,
                                   text, llm),
                     relevantTables, relevantColumns, aggregations, filters)

planForPrimaryTable(primaryTable, relevantTables, relevantColumns, text, llm, e) ==
    assemblePlan(primaryTable, relevantTables, relevantColumns,
                 parseAggregations(text, relevantColumns),
                 parseFilters(text, relevantColumns, primaryTable, e), text, llm)

\* a plan is built whether or not a table is left
planWithoutTableCheck(relevantTables, relevantColumns, text, llm, e) ==
    planForPrimaryTable(choosePrimaryTable(text, relevantTables, relevantColumns),
                        relevantTables, relevantColumns, text, llm, e)

planForRelevant(relevantTables, relevantColumns, text, llm, e) ==
    IF Len(relevantTables) = 0
    THEN [ok |-> FALSE, error |-> NoRelevantTables]
    ELSE planForPrimaryTable(choosePrimaryTable(text, relevantTables, relevantColumns),
                             relevantTables, relevantColumns, text, llm, e)

\* generateQuery after mapUserQueryToSchema has returned mapping m
generateQuery(text, m, e) ==
    planForRelevant(Slice(SelectSeq(m.tables, AboveFloor), TableCap),
                    Slice(SelectSeq(m.suggestedColumns, AboveFloor), ColumnCap),
                    text, m.llmAnalysis, e)

----------------------------------------------------------------------------
(* SemanticMapper: a catalog row is [table_name, column_name, data_type,    *)
(* sampled_values]; sampled_values is <<>> when the column was not sampled. *)

RECURSIVE SumSeq(_)
SumSeq(q) == IF Len(q) = 0 THEN 0 ELSE Head(q) + SumSeq(Tail(q))

\* columnName.split(/[_\s]+/)
RECURSIVE SplitTokensFrom(_, _)
SplitTokensFrom(s, i) ==
    IF i > Len(s) THEN <<>>
    ELSE LET IsSep(c) == c = "_" \/ IsSpace(c)
             RECURSIVE TokenEnd(_)
             TokenEnd(k) == IF k > Len(s) \/ IsSep(Ch(s, k)) THEN k - 1 ELSE TokenEnd(k + 1)
             RECURSIVE SkipSep(_)
             SkipSep(k) == IF k <= Len(s) /\ IsSep(Ch(s, k)) THEN SkipSep(k + 1) ELSE k
             b == TokenEnd(i)
         IN  IF b < i THEN SplitTokensFrom(s, SkipSep(i))
             ELSE <<SubSeq(s, i, b)>> \o SplitTokensFrom(s, SkipSep(b + 1))

DistanceWords == {"distance", "km", "kilometre", "kilometres", "kilometer", "kilometers",
                  "how many kilometres", "how many kilometers"}
dateWords == {"date", "time", "when", "june", "2025", "month", "week", "day", "started",
              "ended", "ride", "journey", "first", "last"}
numericWords == {"number", "amount", "count", "total", "sum", "average", "avg", "distance",
                 "km", "kilometre", "how many", "most", "departures"}
textWords == {"name", "text", "description", "label", "avenue", "congress", "station",
              "location", "place", "point", "docking"}
genderWords == {"women", "men", "gender", "female", "male", "rider"}
weatherWords == {"weather", "rain", "rainy", "precipitation", "temperature", "temp",
                 "condition"}

\* the partial-match bonuses one user word earns against a column name
wordScore(userWord, columnName) ==
    IF Len(userWord) > 2
    THEN (IF Includes(columnName, userWord) THEN 50 ELSE 0)
         + (IF Includes(userWord, columnName) THEN 30 ELSE 0)
         + (LET columnTokens == SplitTokensFrom(columnName, 1) IN
            IF \E k \in 1..Len(columnTokens) :
                  Includes(columnTokens[k], userWord) \/ Includes(userWord, columnTokens[k])
            THEN 25 ELSE 0)
    ELSE 0

calculateColumnScore(text, columnMapping) ==
    IF text = "" \/ columnMapping.column_name = "" THEN 0
    ELSE
    LET userWords == SplitWords(toLowerCase(text))
        W == SeqToSet(userWords)
        SomeWord(S) == W \cap S # {}
        columnName == toLowerCase(columnMapping.column_name)
        dataType == toLowerCase(columnMapping.data_type)
        tableName == toLowerCase(columnMapping.table_name)
        sampled == columnMapping.sampled_values
        sampledValues == [k \in 1..Len(sampled) |-> toLowerCase(sampled[k])]
        nameScore ==
            (IF columnName \in W THEN 100 ELSE 0)
            + SumSeq([i \in 1..Len(userWords) |-> wordScore(userWords[i], columnName)])
            + (IF (Includes(columnName, "distance") \/ Includes(columnName, "km"))
                  /\ SomeWord(DistanceWords) THEN 50 ELSE 0)
        typeScore ==
            (IF (Includes(dataType, "timestamp") \/ Includes(dataType, "date"))
                /\ SomeWord(dateWords) THEN 40 ELSE 0)
            + (IF (Includes(dataType, "numeric") \/ Includes(dataType, "integer"))
                  /\ SomeWord(numericWords) THEN 40 ELSE 0)
            + (IF Includes(dataType, "character") \/ Includes(dataType, "text")
               THEN (IF SomeWord(textWords) THEN 40 ELSE 0)
                    + (IF SomeWord(genderWords) THEN 35 ELSE 0)
                    + (IF SomeWord(weatherWords) THEN 35 ELSE 0)
               ELSE 0)
        valueScore ==
            SumSeq([i \in 1..Len(userWords) |->
                IF \E k \in 1..Len(sampledValues) :
                      \/ Includes(sampledValues[k], userWords[i])
                      \/ Includes(userWords[i], sampledValues[k])
                THEN 30 ELSE 0])
        tableScore ==
            IF tableName = "trips"
            THEN (IF SomeWord({"trip", "ride", "journey", "started", "ended", "departure",
                          "arrival"}) THEN 30 ELSE 0)
                 + (IF SomeWord({"time", "duration", "how long", "average"}) THEN 25 ELSE 0)
                 + (IF SomeWord(DistanceWords) THEN 35 ELSE 0)
                 + (IF SomeWord({"women", "woman", "female", "females", "gender"}) THEN 25 ELSE 0)
            ELSE IF tableName = "stations"
            THEN (IF SomeWord({"station", "congress", "avenue", "location", "place", "start",
                          "end", "point", "docking"}) THEN 30 ELSE 0)
                 + (IF SomeWord({"name", "title", "most", "departures"}) THEN 25 ELSE 0)
            ELSE IF tableName = "daily_weather"
            THEN (IF SomeWord({"weather", "rain", "rainy", "precipitation", "condition"})
                  THEN 30 ELSE 0)
                 + (IF SomeWord({"temperature", "temp", "hot", "cold"}) THEN 25 ELSE 0)
            ELSE IF tableName = "bikes"
            THEN (IF SomeWord({"bike", "bicycle", "vehicle"}) THEN 30 ELSE 0)
            ELSE 0
        cardinalityScore == IF Len(sampled) > 10 THEN 10 ELSE 0
    IN  nameScore + typeScore + valueScore + tableScore + cardinalityScore

\* insertion that puts an entry before the entries of the same score
RECURSIVE InsertBeforeTies(_, _)
InsertBeforeTies(sorted, x) ==
    IF Len(sorted) = 0 THEN <<x>>
    ELSE IF Head(sorted).score > x.score
    THEN <<Head(sorted)>> \o InsertBeforeTies(Tail(sorted), x)
    ELSE <<x>> \o sorted

\* Array.prototype.sort((a, b) => b.score - a.score): stable, highest first
RECURSIVE InsertByScore(_, _)
InsertByScore(sorted, x) ==
    IF Len(sorted) = 0 THEN <<x>>
    ELSE IF Head(sorted).score >= x.score
    THEN <<Head(sorted)>> \o InsertByScore(Tail(sorted), x)
    ELSE <<x>> \o sorted

RECURSIVE SortByScore(_)
SortByScore(q) ==
    IF Len(q) = 0 THEN <<>>
    ELSE InsertByScore(SortByScore(SubSeq(q, 1, Len(q) - 1)), q[Len(q)])

\* names in order of first appearance
RECURSIVE Distinct(_)
Distinct(q) ==
    IF Len(q) = 0 THEN <<>>
    ELSE LET front == Distinct(SubSeq(q, 1, Len(q) - 1))
         IN  IF q[Len(q)] \in SeqToSet(front) THEN front ELSE Append(front, q[Len(q)])

MaxOf(S) == CHOOSE x \in S : \A y \in S : x >= y

IsUsableRow(row) == row.table_name # "" /\ row.column_name # ""

\* the rows in the iteration order of groupColumnsByTable()
groupColumnsByTable(cache) ==
    LET usable == SelectSeq(cache, IsUsableRow)
        tableNames == Distinct([i \in 1..Len(usable) |-> usable[i].table_name])
        RECURSIVE RowsOf(_)
        RowsOf(k) ==
            IF k > Len(tableNames) THEN <<>>
            ELSE LET InTable(row) == row.table_name = tableNames[k]
                 IN  SelectSeq(usable, InTable) \o RowsOf(k + 1)
    IN  RowsOf(1)

ScoreFloor == 0 - 10
MappedTableCap == 3
MappedColumnCap == 15

\* only columns with a positive score are kept
ColumnAboveZero(c) == c.score > 0

ColumnAboveFloor(c) == c.score >= ScoreFloor

\* the scored columns, in the iteration order of the grouped rows
scoreColumns(text, rows) ==
    [i \in 1..Len(rows) |->
        [tableName |-> rows[i].table_name,
         columnName |-> rows[i].column_name,
         dataType |-> rows[i].data_type,
         score |-> calculateColumnScore(text, rows[i])]]

\* tableScores: per table, in order of first appearance, its best column score
tableScoresFor(scoredColumns, tableNames) ==
    [k \in 1..Len(tableNames) |->
        [tableName |-> tableNames[k],
         score |-> MaxOf({0} \cup {scoredColumns[i].score : i \in
                      {n \in 1..Len(scoredColumns) :
                          scoredColumns[n].tableName = tableNames[k]}})]]

tableScores(scoredColumns) ==
    tableScoresFor(scoredColumns,
                   Distinct([i \in 1..Len(scoredColumns) |-> scoredColumns[i].tableName]))

mappingFor(scoredColumns, llm) ==
    [tables |-> Slice(SortByScore(tableScores(scoredColumns)), MappedTableCap),
     suggestedColumns |-> Slice(scoredColumns, MappedColumnCap),
     llmAnalysis |-> llm]

\* mapUserQueryToSchema once the cache is loaded and the analysis has returned
mapUserQueryToSchema(text, cache, llm) ==
    mappingFor(SortByScore(SelectSeq(scoreColumns(text, groupColumnsByTable(cache)),
                                     ColumnAboveFloor)), llm)

----------------------------------------------------------------------------
(* The database as the mapper sees it: the answer of getSchemaInfo() and,   *)
(* per column, the DISTINCT values a sampling query returns.                *)

Row(t, c, d, v) == [table_name |-> t, column_name |-> c, data_type |-> d, values |-> v]

BikesRows ==
    << Row("bikes", "bike_id", "integer", <<>>),
       Row("bikes", "bike_model", "character varying", <<"Classic", "E-Bike">>),
       Row("bikes", "acquisition_date", "date", <<>>),
       Row("bikes", "current_station_id", "integer", <<>>) >>

WeatherRows ==
    << Row("daily_weather", "weather_date", "date", <<>>),
       Row("daily_weather", "high_temp_c", "numeric", <<>>),
       Row("daily_weather", "low_temp_c", "numeric", <<>>),
       Row("daily_weather", "precipitation_mm", "numeric", <<>>) >>

StationsRows ==
    << Row("stations", "station_id", "integer", <<>>),
       Row("stations", "station_name", "character varying",
           <<"Congress Avenue", "State Street">>) >>

TripsRows(genderType) ==
    << Row("trips", "trip_id", "integer", <<>>),
       Row("trips", "bike_id", "integer", <<>>),
       Row("trips", "started_at", "timestamp without time zone", <<>>),
       Row("trips", "ended_at", "timestamp without time zone", <<>>),
       Row("trips", "start_station_id", "integer", <<>>),
       Row("trips", "end_station_id", "integer", <<>>),
       Row("trips", "rider_birth_year", "integer", <<>>),
       Row("trips", "rider_gender", genderType, <<"female", "male">>),
       Row("trips", "trip_distance_km", "numeric", <<>>) >>

\* the catalog of the test suite
mockSchema ==
    << Row("trips", "started_at", "timestamp", <<>>),
       Row("trips", "ended_at", "timestamp", <<>>),
       Row("stations", "station_name", "character varying", <<>>) >>

\* rows the grouping skips: no table name or no column name
UnusableRows ==
    << Row("", "started_at", "timestamp", <<>>),
       Row("trips", "", "timestamp", <<>>) >>

Databases ==
    [full |-> [answer |-> "rows",
               rows |-> BikesRows \o WeatherRows \o StationsRows
                        \o TripsRows("character varying")],
     textGender |-> [answer |-> "rows",
                     rows |-> BikesRows \o WeatherRows \o StationsRows \o TripsRows("text")],
     mock |-> [answer |-> "rows", rows |-> mockSchema],
     noTrips |-> [answer |-> "rows", rows |-> BikesRows \o WeatherRows \o StationsRows],
     unusable |-> [answer |-> "rows", rows |-> UnusableRows],
     empty |-> [answer |-> "rows", rows |-> <<>>],
     invalid |-> [answer |-> "invalid", rows |-> <<>>],
     down |-> [answer |-> "error", rows |-> <<>>]]

SampleCap == 10

IsCategorical(row) == Includes(row.data_type, "character") \/ Includes(row.data_type, "text")

\* the cache after refreshSchemaCache() against database d
refreshSchemaCache(d) ==
    IF d.answer # "rows" THEN <<>>
    ELSE LET categorical == SelectSeq(d.rows, IsCategorical)
             sampledCols == Slice(categorical, SampleCap)
         IN  [i \in 1..Len(d.rows) |->
                [table_name |-> d.rows[i].table_name,
                 column_name |-> d.rows[i].column_name,
                 data_type |-> d.rows[i].data_type,
                 sampled_values |->
                     IF d.rows[i] \in SeqToSet(sampledCols) THEN d.rows[i].values ELSE <<>>]]

----------------------------------------------------------------------------
(* SemanticMapper.analyzeQueryIntent: the fields of the analysis the        *)
(* planner reads.                                                           *)

Analysis(dims, weather) == [groupingDimensions |-> dims, weatherFilter |-> weather]

DefaultAnalysis == Analysis(<<>>, "")

FallbackDimensions ==
    <<"end station", "start station", "station", "dock", "docking point", "gender",
      "date", "day", "weekday", "weekend", "bike", "rider">>

\* /\bby\s+(end\s+station|...|rider)\b/gi at position i: the end of the match
\* and the captured text, for the first alternative that fits
FallbackAt(s, i) ==
    IF /\ StartsAt(s, "by", i) /\ ~IsWordChar(Ch(s, i - 1)) /\ IsSpace(Ch(s, i + 2))
    THEN LET a == SkipSpace(s, i + 2)
             \* end of alternative k matched at a, 0 when it does not match
             AltEnd(k) ==
                 LET alt == FallbackDimensions[k]
                     sp == CHOOSE n \in 0..Len(alt) :
                              /\ (n = 0 \/ Ch(alt, n) = " ")
                              /\ (n = 0 => ~Includes(alt, " "))
                 IN  IF sp = 0
                     THEN IF StartsAt(s, alt, a) /\ ~IsWordChar(Ch(s, a + Len(alt)))
                          THEN a + Len(alt) - 1 ELSE 0
                     ELSE LET w1 == SubSeq(alt, 1, sp - 1)
                              w2 == SubSeq(alt, sp + 1, Len(alt))
                              b == SkipSpace(s, a + Len(w1))
                          IN  IF /\ StartsAt(s, w1, a) /\ IsSpace(Ch(s, a + Len(w1)))
                                 /\ StartsAt(s, w2, b) /\ ~IsWordChar(Ch(s, b + Len(w2)))
                              THEN b + Len(w2) - 1 ELSE 0
             fits == {k \in 1..Len(FallbackDimensions) : AltEnd(k) # 0}
         IN  IF fits = {} THEN [found |-> FALSE]
             ELSE [found |-> TRUE, last |-> AltEnd(MinOf(fits)),
                   capture |-> SubSeq(s, a, AltEnd(MinOf(fits)))]
    ELSE [found |-> FALSE]

\* the while (byPattern.exec(text)) loop: each search resumes after the
\* previous match; the pattern is case-insensitive and the capture keeps the
\* case of the question
RECURSIVE fallbackFrom(_, _, _)
fallbackFrom(text, lowerText, i) ==
    LET hits == {k \in i..Len(text) : FallbackAt(lowerText, k).found}
    IN  IF hits = {} THEN <<>>
        ELSE LET m == FallbackAt(lowerText, MinOf(hits))
             IN  <<TextVal(SubSeq(text, m.last - Len(m.capture) + 1, m.last))>>
                 \o fallbackFrom(text, lowerText, m.last + 1)

fallbackGroupingDimensions(text) == fallbackFrom(text, toLowerCase(text), 1)

\* what the completion service may answer: no answer at all (the call
\* rejects, as it does without an API key), text holding no JSON object,
\* an object that JSON.parse rejects, an object whose group_by is no list,
\* or an object with these slots; an element of group_by may be a number
GroupByAnswers ==
    {<<>>, <<TextVal("station")>>, <<TextVal("gender")>>, <<TextVal("end station")>>,
     <<TextVal("date")>>, <<NumVal(1)>>}

analyzeQueryIntent(text, answer) ==
    IF answer.kind = "error" THEN DefaultAnalysis
    ELSE IF answer.kind \in {"prose", "unparseable", "group_by_no_list"}
    THEN Analysis(fallbackGroupingDimensions(text), "")
    ELSE Analysis(answer.group_by, IF answer.needs_weather_rain THEN "rainy" ELSE "")

LLMAnswers ==
    {[kind |-> "error"], [kind |-> "prose"], [kind |-> "unparseable"],
     [kind |-> "group_by_no_list"]}
    \cup {[kind |-> "json", group_by |-> g, needs_weather_rain |-> w] :
            g \in GroupByAnswers, w \in BOOLEAN}

----------------------------------------------------------------------------
(* The service: one request at a time walks mapUserQueryToSchema and        *)
(* generateQuery; the schema cache outlives the request.                    *)

\* process.env.TZ as minutes east of UTC, and the local calendar date
Environments ==
    { [tz |-> 0, now |-> [y |-> 2025, m |-> 6, d |-> 15]],
      [tz |-> 330, now |-> [y |-> 2025, m |-> 0, d |-> 10]] }

DatabaseNames == {"full", "textGender", "mock", "noTrips", "unusable", "empty", "invalid", "down"}

Questions ==
    { "What was the average ride time for journeys that started at Congress Avenue in June 2025?",
      "What was the average ride time for journeys that started at Congress Avenue in July 2025?",
      "Which docking point saw the most departures during the first week of June 2025?",
      "Which docking point saw the most departures during the first week of February 2024?",
      "How many kilometres were ridden by women on rainy days in June 2025?",
      "Which station had the most departures?",
      "Show bikes purchased by station",
      "asdf qwerty",
      "Total distance by men in May 2025",
      "Total distance by gender for female riders in December 2024",
      "Total rides of bike 1001 in June 2025",
      "Top 5 stations by average duration in June 2025",
      "Show bikes purchased at Congress Avenue in June 2025",
      "Average speed on weekends last month",
      "Busiest station between June 3 and June 30, 2025",
      "Total distance for riders over 40 on hot days",
      "What was the average ride time and total distance of journeys in June 2025?",
      "Total distance on days with rain >= 10 in June 2025",
      "Total distance on non-rainy days in June 2025",
      "Total distance on dry days in June 2025",
      "Total rides on the last day of June 2025",
      "Weekend kilometres ridden by women on the last day of June 2025",
      "Which station recorded the most kilometres in June 2025?",
      "Total distance by end station in June 2025",
      "How many kilometres were ridden by men in June 2025?" }

NoResult == [ok |-> FALSE, error |-> ""]
NoMapping == [tables |-> <<>>, suggestedColumns |-> <<>>, llmAnalysis |-> DefaultAnalysis]

\* extractFirstJsonObject has not run
NotExtracted == [found |-> FALSE, text |-> "", ran |-> FALSE]

\* the calls that may interleave on the mapper, and a call not yet made
Calls == {"a", "b"}
IdleCall == [pc |-> "idle", populated |-> FALSE, sampled |-> 0, mapping |-> NoMapping]

Init ==
    /\ calls = [p \in Calls |-> IdleCall]
    /\ cacheOwner = "none"
    /\ response = ""
    /\ jsonText = NotExtracted
    /\ pc = "idle"
    /\ env \in Environments
    /\ db \in DatabaseNames
    /\ schemaCache = <<>>
    /\ userText = ""
    /\ llmAnalysis = DefaultAnalysis
    /\ mapping = NoMapping
    /\ result = NoResult

\* POST /query: a question arrives
Request(q) ==
    /\ pc = "idle"
    /\ pc' = "cache"
    /\ userText' = q
    /\ mapping' = NoMapping
    /\ result' = NoResult
    /\ UNCHANGED <<env, db, schemaCache, llmAnalysis,
                 calls, cacheOwner, response, jsonText>>

\* mapUserQueryToSchema: the cache is empty, so it is refreshed
RefreshSchemaCache ==
    /\ pc = "cache"
    /\ Len(schemaCache) = 0
    /\ schemaCache' = refreshSchemaCache(Databases[db])
    /\ pc' = "analyze"
    /\ UNCHANGED <<env, db, userText, llmAnalysis, mapping, result,
                 calls, cacheOwner, response, jsonText>>

\* mapUserQueryToSchema: the cache holds rows and is used as it is
UseSchemaCache ==
    /\ pc = "cache"
    /\ Len(schemaCache) > 0
    /\ pc' = "analyze"
    /\ UNCHANGED <<env, db, schemaCache, userText, llmAnalysis, mapping, result,
                 calls, cacheOwner, response, jsonText>>

\* mapUserQueryToSchema: the slot extraction returns
AnalyzeQueryIntent(answer) ==
    /\ pc = "analyze"
    /\ llmAnalysis' = analyzeQueryIntent(userText, answer)
    /\ pc' = "map"
    /\ UNCHANGED <<env, db, schemaCache, userText, mapping, result,
                 calls, cacheOwner, response, jsonText>>

\* the scoring of mapUserQueryToSchema and the whole of generateQuery
GenerateQuery ==
    /\ pc = "map"
    /\ mapping' = mapUserQueryToSchema(userText, schemaCache, llmAnalysis)
    /\ result' = generateQuery(userText, mapping', env)
    /\ pc' = "done"
    /\ UNCHANGED <<env, db, schemaCache, userText, llmAnalysis,
                 calls, cacheOwner, response, jsonText>>

\* the response is sent; the mapper keeps its cache
Respond ==
    /\ pc = "done"
    /\ pc' = "idle"
    /\ UNCHANGED <<env, db, schemaCache, userText, llmAnalysis, mapping, result,
                 calls, cacheOwner, response, jsonText>>

Next ==
    \/ \E q \in Questions : Request(q)
    \/ RefreshSchemaCache
    \/ UseSchemaCache
    \/ \E answer \in LLMAnswers : AnalyzeQueryIntent(answer)
    \/ GenerateQuery
    \/ Respond

Spec == Init /\ [][Next]_vars

----------------------------------------------------------------------------
(* Reading a plan's SQL text *)

\* number of places where p occurs in s
Occurrences(s, p) == Cardinality({i \in 1..Len(s) : StartsAt(s, p, i)})

\* the place of the first occurrence of p in s, Len(s) + 1 when there is none
IndexOf(s, p) == MinOf({i \in 1..Len(s) : StartsAt(s, p, i)} \cup {Len(s) + 1})

IsLetter(c) == IsWordChar(c) /\ ~IsDigit(c)

\* the alias a that " FROM <table> <a>" or " JOIN <table> <a>" introduces at
\* i, "" when the keyword at i is not followed by a table and an alias
AliasIntroducedAt(s, keyword, i) ==
    LET Alias(t, tEnd) ==
            IF StartsAt(s, keyword, i) /\ tEnd >= t /\ Ch(s, tEnd + 1) = " "
               /\ IsLetter(Ch(s, tEnd + 2))
            THEN SubSeq(s, tEnd + 2, WordEnd(s, tEnd + 2)) ELSE ""
    IN  Alias(i + Len(keyword), WordEnd(s, i + Len(keyword)))

\* the aliases the FROM and JOIN clauses of the SQL text introduce
IntroducedAliases(sql) ==
    ({AliasIntroducedAt(sql, " FROM ", i) : i \in 1..Len(sql)}
     \cup {AliasIntroducedAt(sql, " JOIN ", i) : i \in 1..Len(sql)}) \ {""}

\* the qualifier x of a reference x.column or x.* that starts at i, "" when
\* no qualified reference starts there
QualifierAt(s, i) ==
    LET Qualifier(xEnd) ==
            IF IsLetter(Ch(s, i)) /\ ~IsWordChar(Ch(s, i - 1)) /\ Ch(s, xEnd + 1) = "."
               /\ (IsLetter(Ch(s, xEnd + 2)) \/ Ch(s, xEnd + 2) = "*")
            THEN SubSeq(s, i, xEnd) ELSE ""
    IN  Qualifier(WordEnd(s, i))

Qualifiers(s) == {QualifierAt(s, i) : i \in 1..Len(s)} \ {""}

\* where the FROM clause of the statement starts: the first FROM that
\* introduces an alias
FromClauseAt(sql) ==
    MinOf({i \in 1..Len(sql) : AliasIntroducedAt(sql, " FROM ", i) # ""} \cup {Len(sql) + 1})

\* the SELECT list, and the text from WHERE or GROUP BY to the end
SelectList(sql) == SubSeq(sql, 1, FromClauseAt(sql) - 1)
AfterJoins(sql) ==
    SubSeq(sql, MinOf({IndexOf(sql, " WHERE "), IndexOf(sql, " GROUP BY "),
                       IndexOf(sql, " ORDER BY "), IndexOf(sql, " LIMIT ")}), Len(sql))

HasGroupBy(sql) == Includes(sql, " GROUP BY ")
HasOrderBy(sql) == Includes(sql, " ORDER BY ")
HasLimit(sql) == Includes(sql, " LIMIT ")

Answered == pc = "done" /\ result.ok

----------------------------------------------------------------------------
(* C1: a question that has an aggregation and holds no ranking vocabulary   *)
(* (most, highest, busiest, 'which' with departures or station) gets, for   *)
(* every advisory slot record, SQL with no GROUP BY, no ORDER BY and no     *)
(* LIMIT clause.                                                            *)
C1_ScalarPlanHasNoGroupOrderLimit ==
    (/\ Answered
     /\ Len(result.aggregations) > 0
     /\ ~isRankingQuery(toLowerCase(userText)))
    => (~HasGroupBy(result.sql) /\ ~HasOrderBy(result.sql) /\ ~HasLimit(result.sql))

(* C2: every alias-qualified column reference in the SELECT list, the WHERE *)
(* clause and the GROUP BY clause uses an alias that the FROM clause or a   *)
(* JOIN of the same statement introduces, whatever the primary table.       *)
C2_QualifiersAreIntroduced ==
    Answered =>
        (Qualifiers(SelectList(result.sql)) \cup Qualifiers(AfterJoins(result.sql)))
            \subseteq IntroducedAliases(result.sql)

\* the WHERE clause of the SQL text without its keyword, "" when absent
WhereText(sql) ==
    LET Text(from) ==
            SubSeq(sql, from + Len(" WHERE "),
                   MinOf({IndexOf(sql, " GROUP BY "), IndexOf(sql, " ORDER BY "),
                          IndexOf(sql, " LIMIT ")}) - 1)
    IN  IF Includes(sql, " WHERE ") THEN Text(IndexOf(sql, " WHERE ")) ELSE ""

\* a month name followed by a four-digit year stands at i
MonthYearAt(s, i) ==
    /\ ~IsWordChar(Ch(s, i - 1))
    /\ \E k \in 1..Len(MonthNames) :
          LET y == i + Len(MonthNames[k]) + 1 IN
          /\ StartsAt(s, MonthNames[k] \o " ", i)
          /\ \A d \in 0..3 : IsDigit(Ch(s, y + d))
          /\ ~IsDigit(Ch(s, y + 4))

\* the month (1..12) and year of the first such phrase of s
MonthYearPhrase(s) ==
    LET At(i) == [m |-> CHOOSE k \in 1..Len(MonthNames) : StartsAt(s, MonthNames[k] \o " ", i),
                  y |-> parseInt(SubSeq(s, WordEnd(s, i) + 2, WordEnd(s, i) + 5))]
    IN  At(MinOf({i \in 1..Len(s) : MonthYearAt(s, i)}))

HasMonthYear(s) == \E i \in 1..Len(s) : MonthYearAt(s, i)

HasDatePhrase(s) == HasMonthYear(s) \/ Includes(s, "last month")

\* the check of buildSQLQuery on grouped top-k questions
isGroupTopKQuery(lt) ==
    Includes(lt, "most") /\ (Includes(lt, "departures") \/ Includes(lt, "docking"))

(* C3: a ranking question that carries a date phrase gets a WHERE clause    *)
(* with a date predicate on the start-time column; and a grouped 'most      *)
(* departures/docking' question whose filters hold none on started_at is    *)
(* not answered with SQL text: the translation fails.                       *)
C3_RankingCarriesDateFilter ==
    /\ (/\ Answered
        /\ isRankingQuery(toLowerCase(userText))
        /\ HasDatePhrase(toLowerCase(userText)))
       => Includes(WhereText(result.sql), ".started_at >= $")
    /\ (Answered /\ isGroupTopKQuery(toLowerCase(userText)))
       => \E i \in 1..Len(result.filters) : Includes(result.filters[i].column, "started_at")

\* the numbers of the placeholders $k of the SQL text, in order of appearance
Placeholders(sql) ==
    LET at == {i \in 1..Len(sql) : Ch(sql, i) = "$"}
        Nth(k) == CHOOSE p \in at : Cardinality({q \in at : q < p}) = k - 1
    IN  [k \in 1..Cardinality(at) |->
            parseInt(SubSeq(sql, Nth(k) + 1, DigitEnd(sql, Nth(k) + 1)))]

FlagOperators == {"WEEKEND", "WEEKDAY", "DIMENSION"}

IsValueFilter(f) == IsWhereFilter(f) /\ f.operator \notin FlagOperators

\* the filters of the plan that the WHERE clause compares with a value
ValueFilters(filters) == SelectSeq(filters, IsValueFilter)

\* the text of the comparison that binds filter f to placeholder k
Comparison(f, k) == "." \o f.column \o " " \o f.operator \o " $" \o numToStr(k)

\* the filters that the WHERE text compares with a placeholder: those that
\* were not degraded to the always-false predicate
BoundFilters(sql, filters) ==
    LET IsBound(f) == Includes(WhereText(sql), "." \o f.column \o " " \o f.operator \o " $")
    IN  SelectSeq(ValueFilters(filters), IsBound)

(* C4, as the code has it: params holds exactly one value per non-flag      *)
(* WHERE filter that was not degraded to the always-false predicate 1=0     *)
(* (every such filter is either bound or degraded); the placeholders are    *)
(* $1..$n in order, without gap or repeat, n is the length of params, and   *)
(* $i binds the value of the filter whose comparison carries it.            *)
C4_ParamsMatchBoundFilters ==
    Answered =>
        LET Holds(bound, value) ==
                /\ Len(result.params) = Len(bound)
                /\ Len(value) = Len(bound) + Occurrences(WhereText(result.sql), "1=0")
                /\ Placeholders(result.sql) = [k \in 1..Len(result.params) |-> k]
                /\ \A k \in 1..Len(bound) :
                      /\ result.params[k] = bound[k].value
                      /\ Includes(result.sql \o " ", Comparison(bound[k], k) \o " ")
        IN  Holds(BoundFilters(result.sql, result.filters), ValueFilters(result.filters))

\* a plan with bound parameters and a degraded filter
C4_Witness ==
    /\ Answered
    /\ Len(result.params) >= 2
    /\ Occurrences(WhereText(result.sql), "1=0") >= 1

(* C4, as stated: params holds exactly one value per non-flag WHERE filter  *)
(* (operators other than WEEKEND, WEEKDAY, DIMENSION), the placeholders are *)
(* $1..$n without gap or repeat and n is the length of params.              *)
C4_ParamsMatchValueFilters ==
    Answered =>
        /\ Len(result.params) = Len(ValueFilters(result.filters))
        /\ Placeholders(result.sql) = [k \in 1..Len(result.params) |-> k]

\* the mapping holds a gender column of the trips table
HasTripsGenderColumn(columns) ==
    \E i \in 1..Len(columns) :
        columns[i].tableName = "trips" /\ Includes(toLowerCase(columns[i].columnName), "gender")

IsGenderPredicate(f) == IsWhereFilter(f) /\ Includes(f.column, "gender")

MentionsWomen(lt) ==
    Includes(lt, "women") \/ Includes(lt, "woman") \/ Includes(lt, "female")

MentionsMen(lt) == (Includes(lt, "men") \/ Includes(lt, "male")) /\ ~MentionsWomen(lt)

(* C5: given a mapped gender column on trips, parseFilters returns for a    *)
(* question with women / woman / female exactly one gender predicate, with  *)
(* operator '=' and value 'female'; and for a question with men / male (and *)
(* not women / female) exactly one gender predicate, with operator ILIKE    *)
(* and never '='.                                                           *)
C5_GenderPredicate ==
    (/\ Answered
     /\ ~isT1Query(userText)
     /\ HasTripsGenderColumn(mapping.suggestedColumns))
    => LET Holds(lt, predicates) ==
               /\ MentionsWomen(lt) =>
                     /\ Len(predicates) = 1
                     /\ predicates[1].operator = "="
                     /\ predicates[1].value = TextVal("female")
               /\ MentionsMen(lt) =>
                     /\ Len(predicates) = 1
                     /\ predicates[1].operator = "ILIKE"
       IN  Holds(toLowerCase(userText), SelectSeq(result.filters, IsGenderPredicate))

\* ISO text of the first day of month m of year y, and of the day n days later
FirstOfMonth(y, m) == IsoOfCivil([y |-> y, m |-> m, d |-> 1])
FirstOfNextMonth(y, m) ==
    IF m = 12 THEN FirstOfMonth(y + 1, 1) ELSE FirstOfMonth(y, m + 1)
DaysAfterFirst(y, m, n) == IsoOfCivil(CivilFromDays(DaysFromCivil(y, m, 1) + n))

(* C6: for every question that holds '<month name> <4-digit year>' and      *)
(* neither 'first week of' nor 'between', wherever the phrase stands,       *)
(* parseDateExpressions returns the first day of that month as start and    *)
(* the first day of the following month as end.                             *)
C6_MonthYearRange ==
    (/\ pc = "done"
     /\ HasMonthYear(toLowerCase(userText))
     /\ ~Includes(toLowerCase(userText), "first week of")
     /\ ~Includes(toLowerCase(userText), "between"))
    => LET Holds(dateInfo, phrase) ==
               /\ dateInfo.found
               /\ dateInfo.startDate = FirstOfMonth(phrase.y, phrase.m)
               /\ dateInfo.endDate = FirstOfNextMonth(phrase.y, phrase.m)
       IN  Holds(parseDateExpressions(userText, env), MonthYearPhrase(toLowerCase(userText)))

\* the cache holds a row that groupColumnsByTable keeps
HasUsableRows == \E i \in 1..Len(schemaCache) : IsUsableRow(schemaCache[i])

Rejected == pc = "done" /\ result = [ok |-> FALSE, error |-> NoRelevantTables]

(* C7: when the catalog fetch fails or yields no usable row,                *)
(* mapUserQueryToSchema returns empty table and column lists; and whenever  *)
(* the mapping holds no table above the floor, generateQuery rejects with   *)
(* 'No relevant tables found for the query' and returns no plan.            *)
C7_EmptyCatalogIsRejected ==
    /\ (pc = "done" /\ ~HasUsableRows)
       => (mapping.tables = <<>> /\ mapping.suggestedColumns = <<>>)
    /\ (pc = "done" /\ SelectSeq(mapping.tables, AboveFloor) = <<>>) => Rejected

\* the database is down, a question went through and was rejected
C7_Witness == Rejected /\ db = "down" /\ userText # "" /\ mapping.tables = <<>>

\* every grouping dimension of the slot record is a string
StringDimensions ==
    \A i \in 1..Len(llmAnalysis.groupingDimensions) :
        llmAnalysis.groupingDimensions[i].kind = "text"

AsksAverageRideTimeAtCongress(lt) ==
    /\ Includes(lt, "average ride time") /\ Includes(lt, "journeys")
    /\ Includes(lt, "started at congress avenue")

(* C9: the average ride time of journeys started at Congress Avenue in      *)
(* month M of year Y is planned on trips joined to stations, with           *)
(* WHERE started_at >= $1 AND started_at < $2 AND station_name = $3, the    *)
(* params (first day of M in Y, first day of the next month, 'Congress      *)
(* Avenue'), a single AVG and no GROUP BY, ORDER BY or LIMIT; the filter    *)
(* list carries the same three values.                                      *)
C9_AverageRideTimePlan ==
    (Answered /\ AsksAverageRideTimeAtCongress(toLowerCase(userText))
              /\ HasMonthYear(toLowerCase(userText)))
    => LET Holds(phrase, expected) ==
               /\ result.params = expected
               /\ [i \in 1..Len(result.filters) |-> result.filters[i].value] = expected
               /\ Includes(result.sql, " FROM trips t JOIN stations s ON ")
               /\ WhereText(result.sql)
                    = "t.started_at >= $1 AND t.started_at < $2 AND s.station_name = $3"
               /\ Occurrences(result.sql, "AVG(") = 1
               /\ ~HasGroupBy(result.sql) /\ ~HasOrderBy(result.sql) /\ ~HasLimit(result.sql)
           Expected(phrase) ==
               <<TextVal(FirstOfMonth(phrase.y, phrase.m)),
                 TextVal(FirstOfNextMonth(phrase.y, phrase.m)),
                 TextVal("Congress Avenue")>>
           Check(phrase) == Holds(phrase, Expected(phrase))
       IN  Check(MonthYearPhrase(toLowerCase(userText)))

AsksBusiestDockingPointOfFirstWeek(lt) ==
    StartsWith(lt, "which docking point saw the most departures during the first week of ")

(* C10: 'Which docking point saw the most departures during the first week  *)
(* of <month> <year>?', with or without advisory grouping dimensions, joins *)
(* trips exactly once to stations, binds the dates [day 1, day 1 + 7) on    *)
(* t.started_at, selects s.station_name and the row count as             *)
(* departure_count,                                                        *)
(* groups by s.station_name, orders by departure_count DESC and limits to 1.*)
C10_BusiestDockingPointPlan ==
    (Answered /\ AsksBusiestDockingPointOfFirstWeek(toLowerCase(userText))
              /\ HasMonthYear(toLowerCase(userText)))
    => LET Holds(phrase) ==
               /\ StartsWith(result.sql,
                     "SELECT s.station_name, COUNT(*) AS departure_count FROM trips t JOIN ")
               /\ Occurrences(result.sql, " JOIN stations ") = 1
               /\ WhereText(result.sql) = "t.started_at >= $1 AND t.started_at < $2"
               /\ result.params = <<TextVal(FirstOfMonth(phrase.y, phrase.m)),
                                    TextVal(DaysAfterFirst(phrase.y, phrase.m, 7))>>
               /\ Includes(result.sql \o ";",
                     " GROUP BY s.station_name ORDER BY departure_count DESC LIMIT 1;")
       IN  Holds(MonthYearPhrase(toLowerCase(userText)))

HasTripsDistanceColumn(columns) ==
    \E i \in 1..Len(columns) :
        columns[i].tableName = "trips" /\ IsDistanceColumn(columns[i])

AsksKilometresByWomenOnRainyDays(lt) ==
    StartsWith(lt, "how many kilometres were ridden by women on rainy days in ")

(* C11: 'How many kilometres were ridden by women on rainy days in <month>  *)
(* <year>?', given a mapped trips distance column and a mapped trips gender *)
(* column, is planned on trips joined to daily_weather and not to stations; *)
(* the WHERE is the half-open month interval on t.started_at, the gender    *)
(* column = 'female' and w.precipitation_mm > 0, four parameters in that    *)
(* order; the SELECT is a single SUM over the distance column and there is  *)
(* no GROUP BY.                                                             *)
C11_KilometresByWomenOnRainyDaysPlan ==
    (/\ Answered
     /\ AsksKilometresByWomenOnRainyDays(toLowerCase(userText))
     /\ HasMonthYear(toLowerCase(userText))
     /\ HasTripsDistanceColumn(mapping.suggestedColumns)
     /\ HasTripsGenderColumn(mapping.suggestedColumns))
    => LET Holds(phrase) ==
               /\ Includes(result.sql, " FROM trips t JOIN daily_weather w ON ")
               /\ ~Includes(result.sql, " JOIN stations ")
               /\ WhereText(result.sql)
                    = "t.started_at >= $1 AND t.started_at < $2 AND t.rider_gender = $3 AND w.precipitation_mm > $4"
               /\ result.params = <<TextVal(FirstOfMonth(phrase.y, phrase.m)),
                                    TextVal(FirstOfNextMonth(phrase.y, phrase.m)),
                                    TextVal("female"), NumVal(0)>>
               /\ Occurrences(SelectList(result.sql), "SUM(t.trip_distance_km)") = 1
               /\ Occurrences(SelectList(result.sql), "(t.") = 1
               /\ ~HasGroupBy(result.sql)
       IN  Holds(MonthYearPhrase(toLowerCase(userText)))

\* the pair <<table, alias>> that " FROM <table> <alias>" or " JOIN <table>
\* <alias>" introduces at i, <<>> when none is introduced there
TableAliasAt(s, keyword, i) ==
    IF AliasIntroducedAt(s, keyword, i) = "" THEN <<>>
    ELSE <<SubSeq(s, i + Len(keyword), WordEnd(s, i + Len(keyword))),
           AliasIntroducedAt(s, keyword, i)>>

\* the tables the SQL text names, each with its alias
TableAliases(sql) ==
    ({TableAliasAt(sql, " FROM ", i) : i \in 1..Len(sql)}
     \cup {TableAliasAt(sql, " JOIN ", i) : i \in 1..Len(sql)}) \ {<<>>}

\* the reference <<x, column>> of an x.column that starts at i, <<>> when no
\* qualified column reference starts there
QualifiedColumnAt(s, i) ==
    LET Ref(x) ==
            IF x # "" /\ IsLetter(Ch(s, i + Len(x) + 1))
            THEN <<x, SubSeq(s, i + Len(x) + 1, WordEnd(s, i + Len(x) + 1))>>
            ELSE <<>>
    IN  Ref(QualifierAt(s, i))

QualifiedColumns(sql) == {QualifiedColumnAt(sql, i) : i \in 1..Len(sql)} \ {<<>>}

\* the tables, and the <<table, column>> pairs, that the catalog lists
CatalogTables(cache) == {cache[i].table_name : i \in 1..Len(cache)}
CatalogColumns(cache) == {<<cache[i].table_name, cache[i].column_name>> : i \in 1..Len(cache)}

(* C12: every table the emitted SQL names and every column it references    *)
(* is one the schema catalog lists, and text of the question reaches the    *)
(* query only as bound parameter values: a row limit written in the         *)
(* question is not copied into the SQL text.                                *)
C12_IdentifiersComeFromCatalog ==
    Answered =>
        LET Holds(named, refs) ==
                /\ \A ta \in named : ta[1] \in CatalogTables(schemaCache)
                /\ \A ref \in refs : \A ta \in named :
                      ta[2] = ref[1] => <<ta[1], ref[2]>> \in CatalogColumns(schemaCache)
                /\ matchTopN(toLowerCase(userText)).found
                      => ~Includes(result.sql \o ";",
                            " LIMIT " \o numToStr(matchTopN(toLowerCase(userText)).n) \o ";")
        IN  Holds(TableAliases(result.sql), QualifiedColumns(result.sql))

(* C13: whatever the slot extraction does - the call rejects, the answer    *)
(* holds no JSON object, the JSON does not parse, or it parses with fields  *)
(* of unexpected types such as a group_by list of non-strings - the slot    *)
(* record analyzeQueryIntent returns is usable (its grouping dimensions are *)
(* strings) and generateQuery returns a plan or fails only for want of      *)
(* relevant tables.                                                         *)
C13_SlotFailureNeverFailsTranslation ==
    pc = "done" => (StringDimensions /\ (result.ok \/ Rejected))

----------------------------------------------------------------------------
(* Progress. The steps the service takes by itself are fair: the catalog    *)
(* query answers or fails (the pool has a connection timeout), scoring and  *)
(* planning are synchronous, the response is written. Nothing makes the     *)
(* completion service answer: callGroq awaits fetch with no timeout, no     *)
(* abort signal and no timer, so its answer is not a fair step; neither is  *)
(* the arrival of a request.                                                *)
\* Progress is followed for one clock and two databases, one that answers
\* and one that is down.
LiveInit ==
    /\ Init
    /\ env.tz = 0
    /\ db \in {"full", "down"}

\* the request moves on from one place of POST /query to the next
Leaves(from, to) == pc = from /\ pc' = to

\* Each fair step is the only step its place allows and is always possible
\* there: the cache test with or without refresh, the scoring and planning,
\* the response.
LiveSpec ==
    /\ LiveInit
    /\ [][Next]_vars
    /\ WF_pc(Leaves("cache", "analyze"))
    /\ WF_pc(Leaves("map", "done"))
    /\ WF_pc(Leaves("done", "idle"))

(* C14: every translation eventually completes: once the slot extraction    *)
(* has been called, also when the completion service never answers, the     *)
(* call is given up after a bounded wait and generateQuery returns a plan   *)
(* or an error.                                                             *)
C14_TranslationCompletes == (pc = "analyze") ~> (pc = "done")

----------------------------------------------------------------------------
(* Interleaving on one SemanticMapper. mapUserQueryToSchema awaits three    *)
(* times: the catalog query of refreshSchemaCache, each sampling query of   *)
(* sampleCategoricalValues, and the slot extraction; other calls run in     *)
(* between. refreshSchemaCache assigns the fetched rows to schemaCache      *)
(* before it samples, and sampling writes sampled_values into the rows of   *)
(* the array it started on, which is the cache only while no later refresh  *)
(* has replaced it.                                                         *)

CacheQuestion == "Total distance by gender for female riders in December 2024"

\* schemaInfo.rows as the catalog query returns them: nothing sampled yet
installedRows(d) ==
    [i \in 1..Len(d.rows) |->
        [table_name |-> d.rows[i].table_name,
         column_name |-> d.rows[i].column_name,
         data_type |-> d.rows[i].data_type,
         sampled_values |-> <<>>]]

\* the places in the array of the columns sampleCategoricalValues visits
sampledIndexes(d) ==
    LET Categorical(i) == IsCategorical(d.rows[i])
    IN  Slice(SelectSeq([i \in 1..Len(d.rows) |-> i], Categorical), SampleCap)

CacheInit ==
    /\ calls = [p \in Calls |-> IdleCall]
    /\ cacheOwner = "none"
    /\ response = ""
    /\ jsonText = NotExtracted
    /\ pc = "idle"
    /\ env \in {e \in Environments : e.tz = 0}
    /\ db = "full"
    /\ schemaCache = <<>>
    /\ userText = CacheQuestion
    /\ llmAnalysis = DefaultAnalysis
    /\ mapping = NoMapping
    /\ result = NoResult

requestVars == <<pc, env, db, userText, llmAnalysis, mapping, result, response, jsonText>>

\* mapUserQueryToSchema is called: the cache is tested once, at entry
CallStart(p) ==
    /\ calls[p].pc = "idle"
    /\ calls' = [calls EXCEPT ![p] =
                    [IdleCall EXCEPT !.pc = IF Len(schemaCache) = 0 THEN "fetch" ELSE "analyze",
                                     !.populated = Len(schemaCache) > 0]]
    /\ UNCHANGED <<schemaCache, cacheOwner>>
    /\ UNCHANGED requestVars

\* refreshSchemaCache: the catalog query resolves with rows, or rejects
CatalogAnswers(p, answer) ==
    /\ calls[p].pc = "fetch"
    /\ IF answer = "rows"
       THEN /\ schemaCache' = installedRows(Databases[db])
            /\ cacheOwner' = p
            /\ calls' = [calls EXCEPT
                            ![p].pc = IF Len(sampledIndexes(Databases[db])) = 0
                                      THEN "analyze" ELSE "sample",
                            ![p].populated = TRUE]
       ELSE /\ schemaCache' = <<>>
            /\ cacheOwner' = "none"
            /\ calls' = [calls EXCEPT ![p].pc = "analyze"]
    /\ UNCHANGED requestVars

\* sampleCategoricalValues: one sampling query resolves and its values are
\* written into the row of the array the refresh installed
SampleColumn(p) ==
    /\ calls[p].pc = "sample"
    /\ LET Sampled(k, idx) ==
               /\ schemaCache' =
                     IF cacheOwner = p
                     THEN [schemaCache EXCEPT
                              ![idx[k]].sampled_values = Databases[db].rows[idx[k]].values]
                     ELSE schemaCache
               /\ calls' = [calls EXCEPT
                               ![p].sampled = k,
                               ![p].pc = IF k = Len(idx) THEN "analyze" ELSE "sample"]
       IN  Sampled(calls[p].sampled + 1, sampledIndexes(Databases[db]))
    /\ UNCHANGED cacheOwner
    /\ UNCHANGED requestVars

\* the slot extraction resolves and the columns of the cache are scored
ScoreColumns(p) ==
    /\ calls[p].pc = "analyze"
    /\ calls' = [calls EXCEPT
                    ![p].pc = "done",
                    ![p].mapping = mapUserQueryToSchema(userText, schemaCache, DefaultAnalysis)]
    /\ UNCHANGED <<schemaCache, cacheOwner>>
    /\ UNCHANGED requestVars

\* the call has returned; the mapper serves the next one
CallReturns(p) ==
    /\ calls[p].pc = "done"
    /\ calls' = [calls EXCEPT ![p] = IdleCall]
    /\ UNCHANGED <<schemaCache, cacheOwner>>
    /\ UNCHANGED requestVars

CacheNext ==
    \/ \E p \in Calls : CallStart(p)
    \/ \E p \in Calls : \E answer \in {"rows", "error"} : CatalogAnswers(p, answer)
    \/ \E p \in Calls : SampleColumn(p)
    \/ \E p \in Calls : ScoreColumns(p)
    \/ \E p \in Calls : CallReturns(p)

CacheSpec == CacheInit /\ [][CacheNext]_vars

\* the cache a refresh that ran alone leaves, and the mapping scored from it
CompleteCache == refreshSchemaCache(Databases[db])
CompleteMapping == mapUserQueryToSchema(userText, CompleteCache, DefaultAnalysis)

(* C15: when mapUserQueryToSchema calls interleave with refreshSchemaCache, *)
(* every call scores the columns of a complete cache - never rows whose     *)
(* values are still being sampled, and never a cache it saw populated and   *)
(* that a failing refresh of another call emptied; and once no refresh is   *)
(* running, a cache that was refreshed several times holds what a single    *)
(* refresh leaves.                                                          *)
C15_NoPartialCacheIsScored ==
    /\ \A p \in Calls :
          calls[p].pc = "done" =>
              \/ calls[p].mapping = CompleteMapping
              \/ (~calls[p].populated /\ calls[p].mapping.tables = <<>>)
    /\ (cacheOwner # "none" /\ \A p \in Calls : calls[p].pc \notin {"fetch", "sample"})
          => schemaCache = CompleteCache


----------------------------------------------------------------------------
(* Selection of the mapped columns and tables.                              *)

\* the cataloged columns with their scores, in the order of the grouped rows
CatalogScores == scoreColumns(userText, groupColumnsByTable(schemaCache))

\* how many entries of q go before entry i: a higher score, or the same
\* score and an earlier place
RankIn(q, i) ==
    Cardinality({n \in 1..Len(q) :
                    \/ q[n].score > q[i].score
                    \/ q[n].score = q[i].score /\ n < i})

\* picked holds exactly the cap first-ranked entries of q, in rank order
IsTopOf(picked, q, cap) ==
    /\ Len(picked) = (IF Len(q) <= cap THEN Len(q) ELSE cap)
    /\ \A i \in 1..Len(q) :
           RankIn(q, i) < cap => picked[RankIn(q, i) + 1] = q[i]

\* the cataloged tables in order of first appearance, each with the highest
\* score among its columns
CatalogTableScores(cols) ==
    LET names == Distinct([i \in 1..Len(cols) |-> cols[i].tableName])
    IN  [k \in 1..Len(names) |->
            [tableName |-> names[k],
             score |-> MaxOf({cols[i].score : i \in
                          {n \in 1..Len(cols) : cols[n].tableName = names[k]}})]]

(* C16: once a request is mapped, the suggested columns are the 15           *)
(* highest-scoring cataloged columns (all of them when there are at most    *)
(* 15) and the tables are the 3 highest-scoring tables (all when at most    *)
(* 3), both in non-increasing score order with ties in catalog order, each  *)
(* table carrying the maximum score of its columns; no column is left out   *)
(* for its score alone.                                                     *)
C16_MappingKeepsTopScored ==
    LET Holds(cols) ==
            /\ IsTopOf(mapping.suggestedColumns, cols, MappedColumnCap)
            /\ IsTopOf(mapping.tables, CatalogTableScores(cols), MappedTableCap)
    IN  pc \in {"generate", "done"} => Holds(CatalogScores)

\* a mapped request over a catalog of more than 15 columns in more than 3
\* tables where two of the suggested columns tie
C16_Witness ==
    /\ pc = "done"
    /\ Len(groupColumnsByTable(schemaCache)) > MappedColumnCap
    /\ Len(mapping.tables) = MappedTableCap
    /\ Len(CatalogTableScores(CatalogScores)) > MappedTableCap
    /\ \E i, j \in 1..Len(mapping.suggestedColumns) :
           /\ i < j
           /\ mapping.suggestedColumns[i].score = mapping.suggestedColumns[j].score
    /\ \E i \in 1..Len(mapping.suggestedColumns) :
           mapping.suggestedColumns[i].score > 0


----------------------------------------------------------------------------
(* "last month".                                                            *)

\* the question names the previous month and no rule before that one in
\* parseDateExpressions recognises a date in it
AsksLastMonth(lowerText) ==
    /\ Includes(lowerText, "last month")
    /\ ~HasMonthYear(lowerText)
    /\ ~Includes(lowerText, "first week of")
    /\ ~Includes(lowerText, "between")

\* ISO text of the first and of the last calendar day of the month before
\* the month of now (now.m counts from 0)
FirstOfPreviousMonth(now) ==
    IF now.m = 0 THEN FirstOfMonth(now.y - 1, 12) ELSE FirstOfMonth(now.y, now.m)
LastOfPreviousMonth(now) == DaysAfterFirst(now.y, now.m + 1, 0 - 1)

\* the plan compares column with the text value under the operator
HasDateBound(plan, operator, day) ==
    \E i \in 1..Len(plan.filters) :
        /\ plan.filters[i].operator = operator
        /\ plan.filters[i].value = TextVal(day)
        /\ \E k \in 1..Len(plan.params) :
               /\ plan.params[k] = TextVal(day)
               /\ Includes(plan.sql \o " ", Comparison(plan.filters[i], k) \o " ")

(* C17: for a 'last month' question without a month-year phrase             *)
(* parseDateExpressions returns the first and the last calendar day of the  *)
(* previous month, and the plan carries closed bounds: date column >= first *)
(* day and date column <= last day, so that the last day of the previous    *)
(* month is inside the range.                                               *)
C17_LastMonthClosedBounds ==
    (Answered /\ AsksLastMonth(toLowerCase(userText)))
    => LET Holds(dateInfo, first, last) ==
               /\ dateInfo.found
               /\ dateInfo.startDate = first
               /\ dateInfo.endDate = last
               /\ HasDateBound(result, ">=", first)
               /\ HasDateBound(result, "<=", last)
       IN  Holds(parseDateExpressions(userText, env),
                 FirstOfPreviousMonth(env.now), LastOfPreviousMonth(env.now))


----------------------------------------------------------------------------
(* The aggregation cascade.                                                 *)

\* the columns generateQuery hands to parseAggregations
RelevantColumns == Slice(SelectSeq(mapping.suggestedColumns, AboveFloor), ColumnCap)

(* C18: parseAggregations is a first-match-wins cascade: for a question     *)
(* without ranking vocabulary the plan holds at most one aggregation, that  *)
(* of the first branch, in the order average ride time, distance, ranking,  *)
(* count, named patterns, speed, bike inventory, generic average, whose     *)
(* keywords the question contains.                                          *)
C18_FirstMatchWins ==
    (Answered /\ ~aggIsRanking(toLowerCase(userText)))
    => LET Holds(first, rest) ==
               /\ Len(result.aggregations) <= 1
               /\ result.aggregations = (IF Len(first) > 0 THEN first ELSE rest)
       IN  Holds(aggAverageRideTime(toLowerCase(userText)),
                 aggCascade(toLowerCase(userText), RelevantColumns).aggs)


----------------------------------------------------------------------------
(* Precipitation predicates.                                                *)

IsPrecipitationFilter(f) == f.column = "precipitation_mm"

\* the precipitation predicates of the plan, in order
PrecipitationFilters == SelectSeq(result.filters, IsPrecipitationFilter)

DefaultRainFilter == Filter("precipitation_mm", ">", NumVal(0))

\* the question compares rain or precipitation_mm with a number
HasPrecipCompare(lowerText) == matchPrecipCompare(lowerText).found

(* C19: when a rain question carries a numeric comparison against           *)
(* precipitation, such as 'rain >= 10', the filter list holds exactly one   *)
(* precipitation predicate, with the parsed operator and threshold, and no  *)
(* 'precipitation > 0' predicate in addition to it.                         *)
C19_NumericComparisonReplacesDefault ==
    (Answered /\ HasPrecipCompare(toLowerCase(userText)))
    => LET Holds(m, precip) ==
               /\ Len(precip) = 1
               /\ precip[1] = Filter("precipitation_mm", m.operator, NumVal(m.value))
       IN  Holds(matchPrecipCompare(toLowerCase(userText)), PrecipitationFilters)


\* the question asks about days without rain
AsksDryDays(lowerText) ==
    \/ Includes(lowerText, "non-rainy")
    \/ Includes(lowerText, "not rainy")
    \/ Includes(lowerText, "dry")

(* C20: for a question about 'non-rainy', 'not rainy' or 'dry' days the     *)
(* filter list holds the predicate precipitation = 0 and no                 *)
(* 'precipitation > 0' predicate.                                           *)
C20_DryDaysPredicate ==
    (Answered /\ AsksDryDays(toLowerCase(userText)))
    => LET Holds(precip) ==
               /\ \E i \in 1..Len(precip) :
                      precip[i] = Filter("precipitation_mm", "=", NumVal(0))
               /\ \A i \in 1..Len(precip) : precip[i] # DefaultRainFilter
       IN  Holds(PrecipitationFilters)


----------------------------------------------------------------------------
(* "last day of <month> <year>".                                            *)

AsksLastDayOfMonth(lowerText) ==
    Includes(lowerText, "last day of") /\ HasMonthYear(lowerText)

\* ISO text of the last calendar day of month m of year y
LastOfMonth(y, m) ==
    IF m = 12 THEN DaysAfterFirst(y + 1, 1, 0 - 1) ELSE DaysAfterFirst(y, m + 1, 0 - 1)

IsDateRangeFilter(f) ==
    /\ f.operator \in {">=", "<", "<=", ">"}
    /\ (Includes(f.column, "started_at") \/ Includes(f.column, "ended_at")
        \/ Includes(f.column, "date"))

(* C21: for a question with 'last day of <month> <year>' the date           *)
(* predicates of the filter list are exactly start time >= the last         *)
(* calendar day of that month and start time < the first day of the         *)
(* following month; the month-range predicates are replaced.                *)
C21_LastDayOfMonthRange ==
    (Answered /\ AsksLastDayOfMonth(toLowerCase(userText)))
    => LET Holds(phrase, dates) ==
               dates = <<Filter("started_at", ">=",
                                TextVal(LastOfMonth(phrase.y, phrase.m))),
                         Filter("started_at", "<",
                                TextVal(FirstOfNextMonth(phrase.y, phrase.m)))>>
       IN  Holds(MonthYearPhrase(toLowerCase(userText)),
                 SelectSeq(result.filters, IsDateRangeFilter))


\* the predicates that parseFilters accumulates before the last-day rule,
\* apart from the date range, in the order of its rules
NonDatePredicates(lowerText, columns) ==
    filtersGender(lowerText, columns)
    \o filtersLocation(lowerText, columns)
    \o filtersWeather(lowerText)
    \o filtersTemperature(lowerText)
    \o filtersAge(lowerText)
    \o filtersWeekend(lowerText)

IsKeptPredicate(f) == ~IsDateRangeFilter(f) /\ f.operator # "DIMENSION"

(* C30: the last-day-of-month replacement removes only the date-range       *)
(* predicates: every WEEKEND, WEEKDAY, gender, station, weather and age     *)
(* predicate accumulated before it is still in the returned filter list,    *)
(* in its original relative order.                                          *)
C30_LastDayKeepsOtherPredicates ==
    (/\ Answered
     /\ ~isT1Query(userText)
     /\ Includes(toLowerCase(userText), "last day")
     /\ matchWordSpacesYear(toLowerCase(userText)).found)
    => LET Holds(before) == SelectSeq(result.filters, IsKeptPredicate) = before
       IN  Holds(NonDatePredicates(toLowerCase(userText), RelevantColumns))


----------------------------------------------------------------------------
(* Qualification of the WHERE predicates.                                   *)

\* the columns of the stations table and of the daily_weather table
StationTableColumns ==
    {StationsRows[i].column_name : i \in 1..Len(StationsRows)}
WeatherTableColumns ==
    {WeatherRows[i].column_name : i \in 1..Len(WeatherRows)}
    \cup {"precipitation_mm", "high_temp_c", "low_temp_c"}

\* the alias of the table that FROM names
PrimaryAliasOf(sql) == AliasIntroducedAt(sql, " FROM ", FromClauseAt(sql))

\* the alias that owns a predicate's column
OwnerAlias(column, sql) ==
    IF column \in StationTableColumns THEN getTableAlias("stations")
    ELSE IF column \in WeatherTableColumns THEN getTableAlias("daily_weather")
    ELSE PrimaryAliasOf(sql)

\* the qualifiers under which the WHERE clause refers to the column
WhereQualifiersOf(column, sql) ==
    {r[1] : r \in {q \in QualifiedColumns(" " \o WhereText(sql)) : q[2] = column}}

(* C22: in the WHERE clause every predicate is qualified by the alias of    *)
(* the table that owns its column: station columns by the stations alias,   *)
(* weather columns (precipitation_mm, high_temp_c, low_temp_c) by the       *)
(* daily_weather alias, all others by the primary alias; when the owning    *)
(* table is not in the FROM clause the predicate is the always-false 1=0    *)
(* and the column is not referred to under another alias.                   *)
C22_PredicatesQualifiedByOwner ==
    Answered =>
        LET Holds(sql, filters) ==
                \A i \in 1..Len(filters) :
                    LET Qualified(column, owner) ==
                            IF owner \in IntroducedAliases(sql)
                            THEN WhereQualifiersOf(column, sql) = {owner}
                            ELSE /\ WhereQualifiersOf(column, sql) = {}
                                 /\ Includes(WhereText(sql), "1=0")
                    IN  Qualified(filters[i].column, OwnerAlias(filters[i].column, sql))
        IN  Holds(result.sql, SelectSeq(result.filters, IsWhereFilter))


----------------------------------------------------------------------------
(* SemanticMapper.extractFirstJsonObject, applied to response texts made of *)
(* the characters that matter to it: braces, the double quote and the       *)
(* backslash.                                                               *)

MaxResponseLen == 7

Quote == "\""
Backslash == "\\"
ResponseChars == {"{", "}", Quote, Backslash}

RECURSIVE ResponsesOfLen(_)
ResponsesOfLen(n) ==
    IF n = 0 THEN {""}
    ELSE {s \o c : s \in ResponsesOfLen(n - 1), c \in ResponseChars}

Responses == UNION {ResponsesOfLen(n) : n \in 0..MaxResponseLen}

NoJsonObject == [found |-> FALSE, text |-> "", ran |-> TRUE]
JsonObject(text) == [found |-> TRUE, text |-> text, ran |-> TRUE]

\* the loop of extractFirstJsonObject from position i on
RECURSIVE scanJsonObject(_, _, _, _, _, _)
scanJsonObject(s, start, i, depth, inStr, esc) ==
    IF i > Len(s) THEN NoJsonObject
    ELSE IF inStr
    THEN LET escNow == IF Ch(s, i) = Backslash THEN ~esc ELSE FALSE
         IN  scanJsonObject(s, start, i + 1, depth,
                            ~(Ch(s, i) = Quote /\ ~escNow), escNow)
    ELSE IF Ch(s, i) = Quote
    THEN scanJsonObject(s, start, i + 1, depth, TRUE, esc)
    ELSE IF Ch(s, i) = "{"
    THEN scanJsonObject(s, start, i + 1, depth + 1, FALSE, esc)
    ELSE IF Ch(s, i) = "}"
    THEN IF depth - 1 = 0 THEN JsonObject(SubSeq(s, start, i))
         ELSE scanJsonObject(s, start, i + 1, depth - 1, FALSE, esc)
    ELSE scanJsonObject(s, start, i + 1, depth, FALSE, esc)

extractFirstJsonObject(s) ==
    IF ~Includes(s, "{") THEN NoJsonObject
    ELSE scanJsonObject(s, IndexOf(s, "{"), IndexOf(s, "{"), 0, FALSE, FALSE)

JsonInit ==
    /\ response \in Responses
    /\ jsonText = NotExtracted
    /\ calls = [p \in Calls |-> IdleCall]
    /\ cacheOwner = "none"
    /\ pc = "idle"
    /\ env \in {e \in Environments : e.tz = 0}
    /\ db = "down"
    /\ schemaCache = <<>>
    /\ userText = ""
    /\ llmAnalysis = DefaultAnalysis
    /\ mapping = NoMapping
    /\ result = NoResult

\* analyzeQueryIntent hands the response to extractFirstJsonObject
ExtractFirstJsonObject ==
    /\ ~jsonText.ran
    /\ jsonText' = extractFirstJsonObject(response)
    /\ UNCHANGED <<pc, env, db, schemaCache, userText, llmAnalysis, mapping, result,
                   calls, cacheOwner, response>>

JsonNext == ExtractFirstJsonObject

JsonSpec == JsonInit /\ [][JsonNext]_vars

\* where the string literal that opens at i (a double quote) closes: a
\* backslash takes the character after it with it; 0 when it never closes
RECURSIVE LiteralEnd(_, _)
LiteralEnd(s, i) ==
    IF i > Len(s) THEN 0
    ELSE IF Ch(s, i) = Backslash THEN LiteralEnd(s, i + 2)
    ELSE IF Ch(s, i) = Quote THEN i
    ELSE LiteralEnd(s, i + 1)

\* where the brace that is open depth deep at i is balanced, string
\* literals skipped whole; 0 when it never is
RECURSIVE BalancingBrace(_, _, _)
BalancingBrace(s, i, depth) ==
    IF i > Len(s) THEN 0
    ELSE IF Ch(s, i) = Quote
    THEN IF LiteralEnd(s, i + 1) = 0 THEN 0
         ELSE BalancingBrace(s, LiteralEnd(s, i + 1) + 1, depth)
    ELSE IF Ch(s, i) = "{" THEN BalancingBrace(s, i + 1, depth + 1)
    ELSE IF Ch(s, i) = "}"
    THEN IF depth = 1 THEN i ELSE BalancingBrace(s, i + 1, depth - 1)
    ELSE BalancingBrace(s, i + 1, depth)

\* the first balanced object of the response, as the claim describes it
FirstBalancedObject(s) ==
    LET Object(start, end) ==
            IF end = 0 THEN NoJsonObject ELSE JsonObject(SubSeq(s, start, end))
    IN  IF ~Includes(s, "{") THEN NoJsonObject
        ELSE Object(IndexOf(s, "{"), BalancingBrace(s, IndexOf(s, "{"), 0))

(* C23: extractFirstJsonObject returns exactly the substring from the first *)
(* '{' of the response to the '}' that balances it, braces inside           *)
(* double-quoted string literals not counted, also when a literal holds an  *)
(* escaped quote or an escaped backslash; it returns null when there is no  *)
(* '{' or no balancing '}'.                                                 *)
C23_FirstBalancedObjectIsExtracted ==
    jsonText.ran => jsonText = FirstBalancedObject(response)


----------------------------------------------------------------------------
(* ORDER BY and LIMIT.                                                      *)

\* the word that follows the first occurrence of keyword in s, "" when the
\* keyword is absent
WordAfter(s, keyword) ==
    LET Word(at) == SubSeq(s, at, WordEnd(s, at))
    IN  IF Includes(s, keyword) THEN Word(IndexOf(s, keyword) + Len(keyword)) ELSE ""

\* the alias of the first aggregate expression of the SELECT list
FirstSelectAlias(sql) == WordAfter(SelectList(sql), " AS ")

\* the question asks for a ranking: ranking vocabulary or 'top N'
AsksRanking(lowerText) == aggIsRanking(lowerText) \/ matchTopN(lowerText).found

(* C24: every ranking-style plan has ORDER BY <alias> DESC, <alias> being   *)
(* the alias of the first aggregation of its SELECT list, and LIMIT 1, or   *)
(* LIMIT N when the question holds 'top N'; and no plan has a LIMIT clause  *)
(* without an ORDER BY clause.                                              *)
C24_RankingOrderAndLimit ==
    Answered =>
        LET Holds(sql, lowerText, top) ==
                /\ HasLimit(sql) => HasOrderBy(sql)
                /\ AsksRanking(lowerText) =>
                       /\ HasOrderBy(sql)
                       /\ FirstSelectAlias(sql) # ""
                       /\ Includes(sql \o " ", " ORDER BY " \o FirstSelectAlias(sql) \o " DESC ")
                       /\ WordAfter(sql, " LIMIT ")
                              = (IF top.found THEN numToStr(top.n) ELSE "1")
        IN  Holds(result.sql, toLowerCase(userText), matchTopN(toLowerCase(userText)))


----------------------------------------------------------------------------
(* The primary table.                                                       *)

\* the table that the FROM clause of the statement names
PrimaryTableOf(sql) == TableAliasAt(sql, " FROM ", FromClauseAt(sql))[1]

HasTripVocabulary(lowerText) ==
    \E word \in {"departures", "journeys", "trips", "ride", "docking"} :
        Includes(lowerText, word)

NamesTable(tables, tableName) == \E i \in 1..Len(tables) : tables[i].tableName = tableName

\* the precedence, read rule by rule from the strongest
PrimaryByPrecedence(text, relevantTables, relevantColumns) ==
    IF isBikeRelatedQuery(text) THEN "bikes"
    ELSE IF NamesTable(relevantTables, "trips") \/ HasTripVocabulary(toLowerCase(text))
    THEN "trips"
    ELSE IF \E i \in 1..Len(relevantColumns) : IsTimestampColumn(relevantColumns[i])
    THEN TopScored(SelectSeq(relevantColumns, IsTimestampColumn)).tableName
    ELSE "trips"

----------------------------------------------------------------------------
(* The inferred GROUP BY.                                                   *)

\* the column list of the GROUP BY clause, "" when the statement has none
GroupByText(sql) ==
    LET from == IndexOf(sql, " GROUP BY ") + Len(" GROUP BY ")
        rest == SubSeq(sql, from, Len(sql))
        Upto(keyword, s) == IF Includes(s, keyword)
                            THEN SubSeq(s, 1, IndexOf(s, keyword) - 1) ELSE s
    IN  IF HasGroupBy(sql) THEN Upto(" ORDER BY ", Upto(" LIMIT ", rest)) ELSE ""

HasStationVocabulary(lowerText) ==
    \E word \in {"station", "dock", "departures"} : Includes(lowerText, word)

IsCountStar(agg) == agg.function = "COUNT" /\ agg.column = "*"

(* C26: a plan for a ranking question (most, highest, busiest, 'which' with *)
(* departures or station) whose aggregation is COUNT of * and has no 'by    *)
(* <dimension>' predicate, built without grouping dimensions from the       *)
(* analysis, has a GROUP BY on exactly one column: s.station_name when the  *)
(* question has station vocabulary, otherwise the first mapped column under *)
(* the primary alias.                                                       *)
C26_RankingCountGroupsByOneColumn ==
    (Answered /\ mapping.llmAnalysis.groupingDimensions = <<>>) =>
        LET Holds(sql, lowerText, plan) ==
                (/\ isRankingQuery(lowerText)
                 /\ \E i \in 1..Len(plan.aggregations) : IsCountStar(plan.aggregations[i])
                 /\ \A i \in 1..Len(plan.filters) : ~IsGroupingFilter(plan.filters[i]))
                => /\ HasGroupBy(sql)
                   /\ GroupByText(sql)
                          = (IF HasStationVocabulary(lowerText)
                             THEN getTableAlias("stations") \o ".station_name"
                             ELSE PrimaryAliasOf(sql) \o "." \o plan.columns[1])
        IN  Holds(result.sql, toLowerCase(userText), result)


----------------------------------------------------------------------------
(* The station label and the GROUP BY clause.                               *)

HasAggregateExpression(selectList) ==
    \E call \in {"COUNT(", "SUM(", "AVG(", "MIN(", "MAX("} : Includes(selectList, call)

StationLabel == getTableAlias("stations") \o ".station_name"

(* C27: when the SELECT list of a plan holds the label s.station_name next  *)
(* to an aggregate expression, the plan has a GROUP BY clause that holds    *)
(* s.station_name. Stated for the plans built without grouping dimensions   *)
(* from the analysis, which replace the GROUP BY clause.                    *)
C27_StationLabelIsGrouped ==
    (Answered /\ mapping.llmAnalysis.groupingDimensions = <<>>) =>
        LET Holds(sql) ==
                (/\ Includes(SelectList(sql), StationLabel)
                 /\ HasAggregateExpression(SelectList(sql)))
                => Includes(GroupByText(sql), StationLabel)
        IN  Holds(result.sql)


----------------------------------------------------------------------------
(* The rows a gender predicate selects.                                     *)

\* the values of trips.rider_gender that the database stores
StoredGenders == {"female", "male", "non-binary"}

\* PostgreSQL's  stored ILIKE pattern  for the patterns x, %x, x% and %x%:
\* a comparison without regard to case, % standing for any text
IlikeMatches(stored, pattern) ==
    LET open == Len(pattern) > 0 /\ Ch(pattern, 1) = "%"
        close == Len(pattern) > 1 /\ Ch(pattern, Len(pattern)) = "%"
        core == toLowerCase(SubSeq(pattern, IF open THEN 2 ELSE 1,
                                   IF close THEN Len(pattern) - 1 ELSE Len(pattern)))
        value == toLowerCase(stored)
        at == {i \in 1..(Len(value) + 1) : StartsAt(value, core, i) \/ Len(core) = 0}
    IN  \E i \in at :
            /\ open \/ i = 1
            /\ close \/ i + Len(core) = Len(value) + 1

\* the stored values for which the rendered predicate is true
SelectedGenders(f) ==
    {g \in StoredGenders :
        IF f.operator = "ILIKE" THEN IlikeMatches(g, f.value.text)
        ELSE f.operator = "=" /\ f.value = TextVal(g)}

(* C28: the gender predicate of a plan for a men / male question selects no *)
(* row whose stored gender is 'female': over the stored values female, male *)
(* and non-binary it selects none of the rows that the predicate of a women *)
(* question selects.                                                        *)
C28_MenPredicateExcludesFemale ==
    (Answered /\ ~isT1Query(userText)) =>
        LET Holds(lt, predicates) ==
                MentionsMen(lt) =>
                    \A i \in 1..Len(predicates) :
                        /\ "female" \notin SelectedGenders(predicates[i])
                        /\ SelectedGenders(predicates[i])
                               \cap SelectedGenders(Filter("rider_gender", "=",
                                                           TextVal("female"))) = {}
        IN  Holds(toLowerCase(userText), SelectSeq(result.filters, IsGenderPredicate))


----------------------------------------------------------------------------
(* Grouping by start station and by end station.                            *)

\* the aliases of stations that the statement joins on the given trips column
StationAliasesJoinedOn(sql, tripsColumn) ==
    {a \in IntroducedAliases(sql) :
        Includes(sql, " JOIN stations " \o a \o " ON " \o getTableAlias("trips") \o "."
                          \o tripsColumn \o " = " \o a \o ".station_id")}

\* the aliases under which the text refers to station_name
StationNameQualifiers(clause, sql) ==
    {a \in IntroducedAliases(sql) : Includes(" " \o clause, " " \o a \o ".station_name")}

\* the label of the SELECT list and the column of the GROUP BY clause are
\* station_name of an alias joined on the given trips column
GroupsByStationJoinedOn(sql, tripsColumn) ==
    /\ StationNameQualifiers(SubSeq(SelectList(sql), Len("SELECT ") + 1,
                                    Len(SelectList(sql))), sql) # {}
    /\ StationNameQualifiers(SubSeq(SelectList(sql), Len("SELECT ") + 1,
                                    Len(SelectList(sql))), sql)
           \subseteq StationAliasesJoinedOn(sql, tripsColumn)
    /\ StationNameQualifiers(GroupByText(sql), sql) # {}
    /\ StationNameQualifiers(GroupByText(sql), sql)
           \subseteq StationAliasesJoinedOn(sql, tripsColumn)

(* C29: in a plan for a question that groups 'by end station' the label of  *)
(* the SELECT list and the column of GROUP BY are station_name of the alias *)
(* joined on trips.end_station_id; for 'by station' and 'by start station'  *)
(* they are station_name of the alias joined on trips.start_station_id.     *)
C29_EndStationGroupsByEndAlias ==
    (Answered /\ mapping.llmAnalysis.groupingDimensions = <<>>) =>
        LET Holds(sql, lowerText) ==
                /\ Includes(lowerText, "by end station")
                       => GroupsByStationJoinedOn(sql, "end_station_id")
                /\ (Includes(lowerText, "by station") \/ Includes(lowerText, "by start station"))
                       => GroupsByStationJoinedOn(sql, "start_station_id")
        IN  Holds(result.sql, toLowerCase(userText))

====
